---- MODULE Spec2Model ----
(***************************************************************************)
(* Model of the Calendar_bot worker: the KV-backed credential store        *)
(* (persistence.js), the OAuth handshake and token lifecycle (oauth.js),   *)
(* and the multi-account broadcast operations (calendar.js).               *)
(*                                                                         *)
(* The KV namespace env.EVENTS is modelled by one variable per key family: *)
(*   conns       gconn:{chat}:{sub}                                        *)
(*   emap        emap:{chat}:{uid}:{sub}                                   *)
(*   oauthState  oauth_state:{state}                                       *)
(*   selected    selected_event:{chat}:{user}                              *)
(* Time (Date.now()) is the variable now, in milliseconds.                 *)
(***************************************************************************)
EXTENDS Integers, Sequences, FiniteSets, TLC

VARIABLES now, conns, emap, oauthState, issued, nextNonce, cb, passed, bc, call,
          selected, cmd, flight

vars == <<now, conns, emap, oauthState, issued, nextNonce, cb, passed, bc, call,
          selected, cmd, flight>>

(***************************************************************************)
(* Bounds of the model.                                                    *)
(***************************************************************************)
\* number of clock ticks a behaviour may take
MaxTicks == 3
\* number of handshake tokens /oauth/start issues in a behaviour
MaxIssue == 2
\* clock granularity of the handshake specification (ms)
TickHandshake == 300000
\* clock granularity of the broadcast specification (ms)
TickBroadcast == 60000
\* number of clock ticks a behaviour of the broadcast specification may take
MaxTicksBroadcast == 2

(***************************************************************************)
(* Program constants.                                                      *)
(***************************************************************************)
\* oauth.js: Date.now() - kvStateData.createdAt > 600000
STATE_MAX_AGE_MS == 600000
\* oauth.js: now >= connection.expires_at - 60000
REFRESH_MARGIN_MS == 60000

\* absent value: a missing KV key, a missing field, null or undefined
NoVal == [null |-> TRUE]
\* an absent expires_at, which `connection.expires_at && ...` reads as false
NoExpiry == 0

Workspaces == {1, 2}
Subs == {"A", "B", "C"}
\* the order in which env.EVENTS.list returns keys (lexicographic)
SubOrder == <<"A", "B", "C">>
Users == {"u1", "u2"}
ChatTypes == {"private", "group"}
AuthCodes == {"code1"}

(***************************************************************************)
(* JavaScript values as far as the code's conversions need them.           *)
(***************************************************************************)
JSStr(s) == [t |-> "str", v |-> s]
JSObj(o) == [t |-> "obj", v |-> o]
\* x.f : a property read; reading a property of a string primitive gives undefined
Prop(x, f) == IF x.t = "obj" /\ f \in DOMAIN x.v THEN x.v[f] ELSE "undefined"
\* String(x), as URLSearchParams applies it to a value
ToStr(x) == IF x.t = "str" THEN x.v ELSE "[object Object]"

\* the worker's env bindings
\* a configured secret is a string of bytes; KeyOf(n, b, tail) is n bytes b
\* followed by the bytes of tail
KeyOf(n, b, tail) == [i \in 1..n |-> b] \o tail

Env == [GOOGLE_CLIENT_ID |-> "client-id",
        OAUTH_STATE_SECRET |-> "state-secret",
        ENCRYPTION_KEY |-> KeyOf(32, 0, <<1>>),
        ADMIN_USER_ID |-> "u9"]

\* the chat id as it appears in a URL or a state string: digits plus trailing text
ChatIdStrings == {<<1, "">>, <<2, "">>, <<1, "x">>}
\* parseInt(chatId): the leading integer, trailing text ignored
ParseInt(s) == s[1]

(***************************************************************************)
(* oauth.js: state signature                                               *)
(***************************************************************************)
\* the payload `${chatId}:${initiatedBy}:${chatType}:${nonce}`
Payload(chatId, initiatedBy, chatType, nonce) ==
    [chatId |-> chatId, initiatedBy |-> initiatedBy, chatType |-> chatType, nonce |-> nonce]

\* HMAC-SHA256 of the payload under the secret, taken as collision free
generateStateSignature(payload, secret) == [p |-> payload, k |-> secret]

verifyStateSignature(payload, signature, secret) ==
    signature = generateStateSignature(payload, secret)

\* btoa(`${payload}:${signature}`) with whatever follows the fifth colon-separated part
StateString(payload, signature, tail) ==
    [chatId |-> payload.chatId, initiatedBy |-> payload.initiatedBy,
     chatType |-> payload.chatType, nonce |-> payload.nonce,
     signature |-> signature, tail |-> tail]

parseAndVerifyState_NoVerify(state, secret) ==
    IF state.signature = NoVal
    THEN NoVal
    ELSE [chatId |-> ParseInt(state.chatId), initiatedBy |-> state.initiatedBy,
          chatType |-> state.chatType, nonce |-> state.nonce]

parseAndVerifyState(state, secret) ==
    IF state.signature = NoVal
    THEN NoVal   \* parts.length < 5
    ELSE LET payload == Payload(state.chatId, state.initiatedBy, state.chatType, state.nonce)
         IN IF ~verifyStateSignature(payload, state.signature, secret)
            THEN NoVal
            ELSE [chatId |-> ParseInt(state.chatId), initiatedBy |-> state.initiatedBy,
                  chatType |-> state.chatType, nonce |-> state.nonce]

(***************************************************************************)
(* persistence.js: encryption of the refresh token                         *)
(***************************************************************************)
\* encoder.encode(env.ENCRYPTION_KEY || 'default-key-change-in-production')
\* .slice(0, 32): the first 32 bytes of the secret, all of it when shorter
DefaultKey == KeyOf(32, 9, <<>>)
keyMaterial(env) ==
    LET k == IF env.ENCRYPTION_KEY = <<>> THEN DefaultKey ELSE env.ENCRYPTION_KEY
    IN  SubSeq(k, 1, IF Len(k) < 32 THEN Len(k) ELSE 32)

\* crypto.subtle.importKey('raw', ...) accepts 128, 192 and 256 bit AES keys
\* and rejects every other length
ImportOk(env) == Len(keyMaterial(env)) \in {16, 24, 32}

\* AES-GCM under the imported key: the ciphertext is determined by the key
\* bytes and the plaintext (the random IV travels with it and does not decide
\* whether it decrypts); defined when ImportOk(env), encryptToken throws otherwise
encryptToken(token, env) == [key |-> keyMaterial(env), pt |-> token, intact |-> TRUE]

\* crypto.subtle.decrypt rejects when the key bytes differ or the tag does not
\* match; importKey rejects before that when the key has no AES length
DecryptOk(enc, env) == ImportOk(env) /\ enc.key = keyMaterial(env) /\ enc.intact
decryptToken(enc, env) == enc.pt

(***************************************************************************)
(* persistence.js: connections                                             *)
(***************************************************************************)
Email(sub) == sub

ConnKey(chatId, sub) == <<chatId, sub>>

\* the record storeGoogleConnection puts: no access_token, no expires_at
NewConnection(chatId, sub, email, refreshToken, connectedBy) ==
    [chat_id |-> chatId, google_sub |-> sub, google_email |-> email,
     refresh_token_enc |-> encryptToken(refreshToken, Env),
     revoked |-> FALSE, connected_by |-> connectedBy,
     access_token |-> NoVal, expires_at |-> NoExpiry]

storeGoogleConnection_KeepRevoked(store, chatId, sub, email, refreshToken, connectedBy) ==
    [store EXCEPT ![ConnKey(chatId, sub)] =
        IF @ = NoVal
        THEN NewConnection(chatId, sub, email, refreshToken, connectedBy)
        ELSE [NewConnection(chatId, sub, email, refreshToken, connectedBy)
                EXCEPT !.revoked = store[ConnKey(chatId, sub)].revoked]]

\* one put under gconn:{chatId}:{sub}: the whole record is replaced
storeGoogleConnection(store, chatId, sub, email, refreshToken, connectedBy) ==
    [store EXCEPT ![ConnKey(chatId, sub)] =
        NewConnection(chatId, sub, email, refreshToken, connectedBy)]

(***************************************************************************)
(* oauth.js: the authorization-code exchange                               *)
(***************************************************************************)
\* the request exchangeCodeForTokens(code, env) sends to the token endpoint
ExchangeRequest(code, env) ==
    [code |-> ToStr(code), client_id |-> Prop(env, "GOOGLE_CLIENT_ID")]

\* the provider grants only a known code presented by the registered client
ProviderGrants(req) == req.client_id = Env.GOOGLE_CLIENT_ID /\ req.code \in AuthCodes

exchangeCodeForTokens(code, env) == ProviderGrants(ExchangeRequest(code, env))

(***************************************************************************)
(* State                                                                   *)
(***************************************************************************)
\* cb is the /oauth/callback request being answered: the state it carried and
\* what handleOAuthCallback did; NoCallback when no request is in hand
NoCallback ==
    [state |-> NoVal, outcome |-> "none", kvRead |-> FALSE, exchange |-> FALSE,
     stored |-> FALSE]

\* bc is the broadcast invocation in progress: its loop position, the
\* scoreboard (results), and a log of the requests it has issued
IdleBroadcast ==
    [pc |-> "idle", op |-> "none", chatId |-> 0, uid |-> "none", fresh |-> FALSE,
     targets |-> <<>>, i |-> 0, totalAccounts |-> 0,
     successes |-> <<>>, failures |-> <<>>,
     log |-> <<>>, raisedBy |-> "none"]

\* the last call made directly on the persistence layer: prior is the state of
\* the connection record it found, deleted the number of keys it deleted
\* flight holds, for each concurrently running invocation, what it has read
\* from the store and not yet written back (its position between two awaits)
Processes == {"refresh", "revoke", "callback1", "callback2"}
Landed == [pc |-> "idle"]

\* cmd is the Telegram command handler in progress or last finished
NoCommand == [pc |-> "idle", name |-> "none", chatId |-> 0, userId |-> "", text |-> <<>>,
              uid |-> <<>>, reply |-> "none"]

NoCall == [op |-> "none", chatId |-> 0, sub |-> "", uid |-> "", prior |-> "none",
           deleted |-> 0, result |-> <<>>]

Init ==
    /\ now = 0
    /\ conns = [k \in Workspaces \X Subs |-> NoVal]
    /\ emap = <<>>
    /\ oauthState = <<>>
    /\ issued = {}
    /\ nextNonce = 1
    /\ cb = NoCallback
    /\ passed = <<>>
    /\ bc = IdleBroadcast
    /\ call = NoCall
    /\ selected = [k \in Workspaces \X Users |-> NoVal]
    /\ cmd = NoCommand
    /\ flight = [p \in Processes |-> Landed]

\* Date.now() advances
Tick(step, ticks) ==
    /\ now < ticks * step
    /\ now' = now + step
    /\ UNCHANGED <<conns, emap, oauthState, issued, nextNonce, cb, passed, bc, call,
                 selected, cmd, flight>>

(***************************************************************************)
(* Handshake: /oauth/start and /oauth/callback                             *)
(***************************************************************************)
\* index.js GET /oauth/start -> generateOAuthUrl: signs a fresh state and
\* redirects; nothing is written to env.EVENTS.
generateOAuthUrl(chatId, initiatedBy, chatType) ==
    /\ nextNonce <= MaxIssue
    /\ LET payload == Payload(chatId, initiatedBy, chatType, nextNonce)
           state == StateString(payload,
                        generateStateSignature(payload, Env.OAUTH_STATE_SECRET), "")
       IN issued' = issued \cup {state}
    /\ nextNonce' = nextNonce + 1
    /\ UNCHANGED <<now, conns, emap, oauthState, cb, passed, bc, call,
                 selected, cmd, flight>>

\* The oauth_state:{state} record the callback reads ({createdAt}); no code of
\* the worker writes it, so its writer is an operation of the store's
\* environment, at most once per issued state.
RecordOAuthState(state) ==
    /\ state \in issued
    /\ state \notin DOMAIN passed
    /\ oauthState' = [s \in DOMAIN oauthState \cup {state} |->
                        IF s = state THEN [createdAt |-> now] ELSE oauthState[s]]
    /\ passed' = [s \in DOMAIN passed \cup {state} |->
                        IF s = state THEN 0 ELSE passed[s]]
    /\ UNCHANGED <<now, conns, emap, issued, nextNonce, cb, bc, call,
                 selected, cmd, flight>>

KVDelete(store, key) == [k \in DOMAIN store \ {key} |-> store[k]]

KVGetState_IgnoreTail(store, key) ==
    LET hit == {k \in DOMAIN store : [k EXCEPT !.tail = ""] = [key EXCEPT !.tail = ""]}
    IN  IF hit = {} THEN NoVal ELSE store[CHOOSE k \in hit : TRUE]

\* env.EVENTS.get(`oauth_state:${state}`, 'json'): the key is the whole state string
KVGetState(store, key) == IF key \in DOMAIN store THEN store[key] ELSE NoVal

StateExpired_Never(marker) == FALSE

\* Date.now() - kvStateData.createdAt > 600000
StateExpired(marker) == now - marker.createdAt > STATE_MAX_AGE_MS

ConsumeState_Keep(store, key) == store

\* env.EVENTS.delete(stateKey) once the state has passed every check
ConsumeState(store, key) == KVDelete(store, key)

\* the states a caller of /oauth/callback can present: an issued state, or an
\* issued state with one part changed
Tampered(s) ==
    {[s EXCEPT !.chatId = c] : c \in ChatIdStrings}
    \cup {[s EXCEPT !.initiatedBy = u] : u \in Users}
    \cup {[s EXCEPT !.chatType = t] : t \in ChatTypes}
    \cup {[s EXCEPT !.nonce = n] : n \in 1..MaxIssue}
    \cup {[s EXCEPT !.signature = generateStateSignature(
                Payload(s.chatId, s.initiatedBy, s.chatType, s.nonce), "guessed-secret")],
          [s EXCEPT !.signature = NoVal],
          [s EXCEPT !.tail = "x"]}

CallbackStates == UNION {Tampered(s) : s \in issued}

\* what one run of handleOAuthCallback does to the store and reports
CallbackResult(code, state, sub) ==
    LET stateData == parseAndVerifyState(state, Env.OAUTH_STATE_SECRET)
        marker == KVGetState(oauthState, state)
        base == [state |-> state, outcome |-> "none", kvRead |-> FALSE,
                 exchange |-> FALSE, stored |-> FALSE]
    IN  IF stateData = NoVal
        THEN [cb |-> [base EXCEPT !.outcome = "invalid_state"],
              oauthState |-> oauthState, conns |-> conns, pass |-> FALSE]
        ELSE IF marker = NoVal
        THEN [cb |-> [base EXCEPT !.outcome = "no_marker", !.kvRead = TRUE],
              oauthState |-> oauthState, conns |-> conns, pass |-> FALSE]
        ELSE IF StateExpired(marker)
        THEN [cb |-> [base EXCEPT !.outcome = "expired", !.kvRead = TRUE],
              oauthState |-> KVDelete(oauthState, state), conns |-> conns, pass |-> FALSE]
        ELSE \* the call site passes (env, code) to exchangeCodeForTokens(code, env)
             IF ~exchangeCodeForTokens(JSObj(Env), JSStr(code))
        THEN [cb |-> [base EXCEPT !.outcome = "exchange_failed", !.kvRead = TRUE,
                                  !.exchange = TRUE],
              oauthState |-> ConsumeState(oauthState, state), conns |-> conns, pass |-> TRUE]
        ELSE [cb |-> [base EXCEPT !.outcome = "linked", !.kvRead = TRUE,
                                  !.exchange = TRUE, !.stored = TRUE],
              oauthState |-> ConsumeState(oauthState, state),
              conns |-> storeGoogleConnection(conns, stateData.chatId, sub, Email(sub),
                                              "refresh", stateData.initiatedBy),
              pass |-> TRUE]

handleOAuthCallback(code, state, sub) ==
    LET r == CallbackResult(code, state, sub)
    IN  /\ cb = NoCallback
        /\ cb' = r.cb
        /\ oauthState' = r.oauthState
        /\ conns' = r.conns
        /\ passed' = IF r.pass /\ state \in DOMAIN passed
                     THEN [passed EXCEPT ![state] = @ + 1]
                     ELSE passed
        /\ UNCHANGED <<now, emap, issued, nextNonce, bc, call,
                 selected, cmd, flight>>

\* index.js: the response to /oauth/callback has been sent
CallbackResponse ==
    /\ cb # NoCallback
    /\ cb' = NoCallback
    /\ UNCHANGED <<now, conns, emap, oauthState, issued, nextNonce, passed, bc, call,
                 selected, cmd, flight>>

NextHandshake ==
    \/ Tick(TickHandshake, MaxTicks)
    \/ \E c \in ChatIdStrings : generateOAuthUrl(c, "u1", "group")
    \/ \E s \in issued : RecordOAuthState(s)
    \/ \E code \in AuthCodes, s \in CallbackStates, sub \in {"A"} :
            handleOAuthCallback(code, s, sub)
    \/ CallbackResponse

SpecHandshake == Init /\ [][NextHandshake]_vars

(***************************************************************************)
(* Handshake properties                                                    *)
(***************************************************************************)
\* a step in which handleOAuthCallback handles a request
CallbackStep == cb = NoCallback /\ cb' # NoCallback

SignatureMatches(s) ==
    /\ s.signature # NoVal
    /\ s.signature = generateStateSignature(
            Payload(s.chatId, s.initiatedBy, s.chatType, s.nonce), Env.OAUTH_STATE_SECRET)

\* C6: issuing a handshake state (generateOAuthUrl) records an existence
\* marker for it, so that its first callback within 10 minutes can pass.
C6_IssueRecordsMarker ==
    [][\A s \in issued' \ issued : s \in DOMAIN oauthState']_vars

\* C7: a state is accepted at most once: once a callback carrying it has
\* passed verification, every later callback carrying it is rejected without
\* a credential exchange and without storing a connection.
C7_AcceptedAtMostOnce ==
    [][(CallbackStep /\ cb'.state \in DOMAIN passed /\ passed[cb'.state] >= 1)
        => /\ cb'.outcome \in {"no_marker", "expired", "invalid_state"}
           /\ ~cb'.exchange /\ ~cb'.stored
           /\ conns' = conns
           /\ passed' = passed]_vars

C7_Witness ==
    /\ cb.outcome = "no_marker"
    /\ cb.state \in DOMAIN passed
    /\ passed[cb.state] = 1

\* C8: a state whose signature is valid but for which no marker is stored is
\* rejected: no credential exchange, no connection stored.
C8_NoMarkerRejected ==
    [][(CallbackStep /\ SignatureMatches(cb'.state) /\ cb'.state \notin DOMAIN oauthState)
        => /\ cb'.outcome = "no_marker"
           /\ ~cb'.exchange /\ ~cb'.stored
           /\ conns' = conns /\ oauthState' = oauthState]_vars

C8_Witness ==
    /\ cb.outcome = "no_marker"
    /\ cb.state # NoVal
    /\ SignatureMatches(cb.state)
    /\ cb.state.tail = "x"
    /\ [cb.state EXCEPT !.tail = ""] \in DOMAIN oauthState

\* C9: a state whose signature does not match its payload is rejected before
\* the store is consulted: no marker is read or consumed, no credential
\* exchange happens, no connection is created or modified.
C9_TamperedRejected ==
    [][(CallbackStep /\ ~SignatureMatches(cb'.state))
        => /\ cb'.outcome = "invalid_state"
           /\ ~cb'.kvRead /\ ~cb'.exchange /\ ~cb'.stored
           /\ oauthState' = oauthState
           /\ conns' = conns
           /\ passed' = passed]_vars

C9_Witness ==
    /\ cb.outcome = "invalid_state"
    /\ cb.state # NoVal
    /\ \E s \in DOMAIN oauthState :
          /\ cb.state.signature = s.signature
          /\ ParseInt(cb.state.chatId) # ParseInt(s.chatId)
          /\ cb.state = [s EXCEPT !.chatId = cb.state.chatId]
          /\ now - oauthState[s].createdAt <= STATE_MAX_AGE_MS

\* C10: a callback whose marker is older than 10 minutes is rejected as
\* expired, the marker is deleted and no connection is stored; a state whose
\* marker is gone is never accepted afterwards.
C10_ExpiredRejected ==
    [][/\ (CallbackStep /\ SignatureMatches(cb'.state)
            /\ cb'.state \in DOMAIN oauthState
            /\ now - oauthState[cb'.state].createdAt > STATE_MAX_AGE_MS)
          => /\ cb'.outcome = "expired"
             /\ cb'.state \notin DOMAIN oauthState'
             /\ ~cb'.exchange /\ ~cb'.stored
             /\ conns' = conns
       /\ \A s \in DOMAIN passed :
            s \notin DOMAIN oauthState => (s \notin DOMAIN oauthState' /\ passed'[s] = passed[s])
      ]_vars

C10_Witness ==
    /\ cb.outcome = "expired"
    /\ cb.state \in DOMAIN passed
    /\ passed[cb.state] = 0
    /\ cb.state \notin DOMAIN oauthState

(***************************************************************************)
(* persistence.js: connection and mapping operations                       *)
(***************************************************************************)
Uids == {"EVT-1"}
\* expires_in (seconds) of the access tokens the provider hands out
ExpiresIn == {90}

\* the object a caller gets: the stored data with the refresh token decrypted
Connection(data) ==
    [chat_id |-> data.chat_id, google_sub |-> data.google_sub,
     google_email |-> data.google_email,
     refresh_token |-> decryptToken(data.refresh_token_enc, Env),
     revoked |-> data.revoked, connected_by |-> data.connected_by,
     access_token |-> data.access_token, expires_at |-> data.expires_at]

IsActive(store, chatId, sub) ==
    /\ store[ConnKey(chatId, sub)] # NoVal
    /\ ~store[ConnKey(chatId, sub)].revoked
    /\ DecryptOk(store[ConnKey(chatId, sub)].refresh_token_enc, Env)

getWorkspaceConnections_Twice(store, chatId) ==
    LET Keep(sub) == IsActive(store, chatId, sub)
        subs == SelectSeq(SubOrder, Keep) \o SelectSeq(SubOrder, Keep)
    IN  [n \in 1..Len(subs) |-> Connection(store[ConnKey(chatId, subs[n])])]

getWorkspaceConnections_Abort(store, chatId) ==
    LET Keep(sub) == IsActive(store, chatId, sub)
        subs == SelectSeq(SubOrder, Keep)
    IN  IF \E sub \in Subs : /\ store[ConnKey(chatId, sub)] # NoVal
                              /\ ~DecryptOk(store[ConnKey(chatId, sub)].refresh_token_enc, Env)
        THEN <<>>
        ELSE [n \in 1..Len(subs) |-> Connection(store[ConnKey(chatId, subs[n])])]

\* every non-revoked, decryptable connection under the prefix gconn:{chatId}:
getWorkspaceConnections(store, chatId) ==
    LET Keep(sub) == IsActive(store, chatId, sub)
        subs == SelectSeq(SubOrder, Keep)
    IN  [n \in 1..Len(subs) |-> Connection(store[ConnKey(chatId, subs[n])])]

getGoogleConnection_IgnoreRevoked(store, chatId, sub) ==
    IF /\ store[ConnKey(chatId, sub)] # NoVal
       /\ DecryptOk(store[ConnKey(chatId, sub)].refresh_token_enc, Env)
    THEN Connection(store[ConnKey(chatId, sub)])
    ELSE NoVal

getGoogleConnection(store, chatId, sub) ==
    IF IsActive(store, chatId, sub)
    THEN Connection(store[ConnKey(chatId, sub)])
    ELSE NoVal

\* reads the record, sets access_token and expires_at, puts it back
updateConnectionAccessToken_Unrevoke(store, chatId, sub, accessToken, expiresAt) ==
    [store EXCEPT ![ConnKey(chatId, sub)] =
        [@ EXCEPT !.access_token = accessToken, !.expires_at = expiresAt,
                  !.revoked = FALSE]]

updateConnectionAccessToken(store, chatId, sub, accessToken, expiresAt) ==
    [store EXCEPT ![ConnKey(chatId, sub)] =
        [@ EXCEPT !.access_token = accessToken, !.expires_at = expiresAt]]

revokeGoogleConnection_Delete(store, chatId, sub) ==
    [store EXCEPT ![ConnKey(chatId, sub)] = NoVal]

\* get, return if absent, else set revoked and put the record back
revokeGoogleConnection(store, chatId, sub) ==
    IF store[ConnKey(chatId, sub)] = NoVal
    THEN store
    ELSE [store EXCEPT ![ConnKey(chatId, sub)] = [@ EXCEPT !.revoked = TRUE]]

MapKey(chatId, uid, sub) == <<chatId, uid, sub>>

storeEventMapping_NoSub(m, chatId, uid, sub, eventId) ==
    LET key == MapKey(chatId, uid, "A")
    IN  [k \in DOMAIN m \cup {key} |->
            IF k = key
            THEN [google_sub |-> sub, google_event_id |-> eventId]
            ELSE m[k]]

\* put emap:{chatId}:{uid}:{sub}
storeEventMapping(m, chatId, uid, sub, eventId) ==
    LET key == MapKey(chatId, uid, sub)
    IN  [k \in DOMAIN m \cup {key} |->
            IF k = key
            THEN [google_sub |-> sub, google_event_id |-> eventId]
            ELSE m[k]]

\* the records under the prefix emap:{chatId}:{uid}: , in key order
getEventMappings(m, chatId, uid) ==
    LET Has(sub) == MapKey(chatId, uid, sub) \in DOMAIN m
        subs == SelectSeq(SubOrder, Has)
    IN  [n \in 1..Len(subs) |-> m[MapKey(chatId, uid, subs[n])]]

deleteEventMapping_AllForUid(m, chatId, uid, sub) ==
    [k \in {x \in DOMAIN m : ~(x[1] = chatId /\ x[2] = uid)} |-> m[k]]

deleteEventMapping_Keep(m, chatId, uid, sub) == m

\* deleteEventMapping with a googleSub: delete that one key
deleteEventMapping(m, chatId, uid, sub) == KVDelete(m, MapKey(chatId, uid, sub))

(***************************************************************************)
(* oauth.js: token lifecycle                                               *)
(***************************************************************************)
\* what the world answers during one account's turn of a broadcast:
\*   refresh  the token endpoint: ok, rejected (HTTP 400), error (other non-2xx)
\*   remote   the calendar API: ok, gone (410), notfound (404), error (other)
\*   mentions the body of a non-2xx answer of the calendar API contains the
\*            text '404' or '410'
\*   kvToken  the put in updateConnectionAccessToken fails
\*   kvMap    the put or delete of the emap key fails
Outcomes ==
    {o \in [refresh : {"ok", "rejected", "error"},
            remote : {"ok", "gone", "notfound", "error"},
            mentions : BOOLEAN,
            expires_in : ExpiresIn,
            kvToken : BOOLEAN, kvMap : BOOLEAN] :
        \* an answer that is never asked for is left at its first value
        /\ (o.refresh # "ok" \/ o.kvToken) => (o.remote = "ok" /\ ~o.kvMap)
        /\ o.refresh # "ok" => ~o.kvToken
        /\ o.remote \in {"ok", "gone"} => ~o.mentions
        /\ (o.remote \in {"notfound", "error"} /\ ~o.mentions) => ~o.kvMap}

\* the access token the provider issues for an account at the current time
FreshToken(sub) == [sub |-> sub, iat |-> now]

\* connection.expires_at && now >= connection.expires_at - 60000
NeedsRefresh(connection) ==
    connection.expires_at # NoExpiry /\ now >= connection.expires_at - REFRESH_MARGIN_MS

RefreshRejected_UseCached(store, connection) ==
    [kind |-> "token", token |-> connection.access_token, refreshReq |-> TRUE,
     answer |-> "rejected", store |-> store]

RefreshRejected_Throw(store, connection) ==
    [kind |-> "throw", token |-> NoVal, refreshReq |-> TRUE, answer |-> "rejected",
     store |-> store]

\* refreshAccessToken returned null (HTTP 400): log it and return null
RefreshRejected(store, connection) ==
    [kind |-> "null", token |-> NoVal, refreshReq |-> TRUE, answer |-> "rejected",
     store |-> store]

\* kind: token (a credential is returned), null (refresh failed / none cached),
\* throw (an exception leaves the function); refreshReq: a refresh request was
\* sent, answer: what the token endpoint said to it
getValidAccessTokenForConnection(store, connection, o) ==
    IF NeedsRefresh(connection)
    THEN IF o.refresh = "rejected"
         THEN RefreshRejected(store, connection)
         ELSE IF o.refresh = "error"
         THEN [kind |-> "throw", token |-> NoVal, refreshReq |-> TRUE,
               answer |-> "error", store |-> store]
         ELSE IF store[ConnKey(connection.chat_id, connection.google_sub)] = NoVal \/ o.kvToken
         THEN [kind |-> "throw", token |-> NoVal, refreshReq |-> TRUE,
               answer |-> "ok", store |-> store]
         ELSE [kind |-> "token", token |-> FreshToken(connection.google_sub),
               refreshReq |-> TRUE, answer |-> "ok",
               store |-> updateConnectionAccessToken(store, connection.chat_id,
                            connection.google_sub, FreshToken(connection.google_sub),
                            now + o.expires_in * 1000)]
    ELSE IF connection.access_token # NoVal
    THEN [kind |-> "token", token |-> connection.access_token, refreshReq |-> FALSE,
          answer |-> "none", store |-> store]
    ELSE [kind |-> "null", token |-> NoVal, refreshReq |-> FALSE, answer |-> "none",
          store |-> store]

(***************************************************************************)
(* calendar.js: one account's turn in each broadcast loop                  *)
(***************************************************************************)
\* the id the calendar API gives the event it created in an account
NativeId(sub, uid) == [account |-> sub, event |-> uid]

Success(sub, label, eventId) == [sub |-> sub, label |-> label, eventId |-> eventId]
Failure(sub, label, reason) == [sub |-> sub, label |-> label, reason |-> reason]

\* what a turn adds to the scoreboard and does to the store, with a log of the
\* requests it made: remoteReq (a calendar API call was issued), remoteOk (it
\* answered with success), mapDone (the put or delete of the emap key completed),
\* raise (an exception left the loop)
Turn(sub, succ, fail, store, m, tk, remoteReq, remoteOk, mapDone, raise) ==
    [succ |-> succ, fail |-> fail, conns |-> store, emap |-> m, raise |-> raise,
     log |-> [sub |-> sub, refreshReq |-> tk.refreshReq, answer |-> tk.answer,
              tokenKind |-> tk.kind, token |-> tk.token,
              remoteReq |-> remoteReq, remoteOk |-> remoteOk, mapDone |-> mapDone]]

NoToken == [kind |-> "none", token |-> NoVal, refreshReq |-> FALSE, answer |-> "none"]

Caught_Swallow(sub, label) == <<>>

\* the catch block of a loop body: one failure entry with reason 'Exception'
Caught(sub, label) == <<Failure(sub, label, "Exception")>>

\* broadcastCreateEvent, loop body
CreateTurn(store, m, chatId, uid, conn, o) ==
    LET sub == conn.google_sub
        tk == getValidAccessTokenForConnection(store, conn, o)
    IN  IF tk.kind = "throw"
        THEN Turn(sub, <<>>, Caught(sub, "email"),
                  tk.store, m,
                  tk, FALSE, FALSE, FALSE, FALSE)
        ELSE IF tk.kind = "null"
        THEN Turn(sub, <<>>, <<Failure(sub, "email", "Token refresh failed")>>,
                  tk.store, m,
                  tk, FALSE, FALSE, FALSE, FALSE)
        ELSE IF o.remote # "ok"
        THEN Turn(sub, <<>>, Caught(sub, "email"),
                  tk.store, m,
                  tk, TRUE, FALSE, FALSE, FALSE)
        ELSE IF o.kvMap
        THEN Turn(sub, <<>>, Caught(sub, "email"),
                  tk.store, m,
                  tk, TRUE, TRUE, FALSE, FALSE)
        ELSE Turn(sub, <<Success(sub, "email", NativeId(sub, uid))>>, <<>>,
                  tk.store, storeEventMapping(m, chatId, uid, sub, NativeId(sub, uid)),
                  tk, TRUE, TRUE, TRUE, FALSE)

UpdateTurn_DropOnError(store, m, chatId, uid, mapping, o) ==
    LET sub == mapping.google_sub
        conn == getGoogleConnection(store, chatId, sub)
        tk == getValidAccessTokenForConnection(store, conn, o)
    IN  IF conn = NoVal
        THEN Turn(sub, <<>>, <<Failure(sub, "disconnected", "Account disconnected")>>,
                  store, m,
                  NoToken, FALSE, FALSE, FALSE, FALSE)
        ELSE IF tk.kind = "throw"
        THEN Turn(sub, <<>>, Caught(sub, "sub"),
                  tk.store, m,
                  tk, FALSE, FALSE, FALSE, FALSE)
        ELSE IF tk.kind = "null"
        THEN Turn(sub, <<>>, <<Failure(sub, "email", "Token refresh failed")>>,
                  tk.store, m,
                  tk, FALSE, FALSE, FALSE, FALSE)
        ELSE IF o.remote # "ok"
        THEN Turn(sub, <<>>, Caught(sub, "sub"),
                  tk.store, deleteEventMapping(m, chatId, uid, sub),
                  tk, TRUE, FALSE, FALSE, FALSE)
        ELSE Turn(sub, <<Success(sub, "email", mapping.google_event_id)>>, <<>>,
                  tk.store, m,
                  tk, TRUE, TRUE, FALSE, FALSE)

\* broadcastUpdateEvent, loop body
UpdateTurn(store, m, chatId, uid, mapping, o) ==
    LET sub == mapping.google_sub
        conn == getGoogleConnection(store, chatId, sub)
        tk == getValidAccessTokenForConnection(store, conn, o)
    IN  IF conn = NoVal
        THEN Turn(sub, <<>>, <<Failure(sub, "disconnected", "Account disconnected")>>,
                  store, m,
                  NoToken, FALSE, FALSE, FALSE, FALSE)
        ELSE IF tk.kind = "throw"
        THEN Turn(sub, <<>>, Caught(sub, "sub"),
                  tk.store, m,
                  tk, FALSE, FALSE, FALSE, FALSE)
        ELSE IF tk.kind = "null"
        THEN Turn(sub, <<>>, <<Failure(sub, "email", "Token refresh failed")>>,
                  tk.store, m,
                  tk, FALSE, FALSE, FALSE, FALSE)
        ELSE IF o.remote # "ok"
        THEN Turn(sub, <<>>, Caught(sub, "sub"),
                  tk.store, m,
                  tk, TRUE, FALSE, FALSE, FALSE)
        ELSE Turn(sub, <<Success(sub, "email", mapping.google_event_id)>>, <<>>,
                  tk.store, m,
                  tk, TRUE, TRUE, FALSE, FALSE)

\* broadcastDeleteEvent, loop body
DeleteTurn(store, m, chatId, uid, mapping, o) ==
    LET sub == mapping.google_sub
        conn == getGoogleConnection(store, chatId, sub)
        tk == getValidAccessTokenForConnection(store, conn, o)
        removed == deleteEventMapping(m, chatId, uid, sub)
    IN  IF conn = NoVal
        THEN IF o.kvMap
             THEN Turn(sub, <<>>, Caught(sub, "sub"),
                  store, m,
                  NoToken, FALSE, FALSE, FALSE, FALSE)
             ELSE Turn(sub, <<Success(sub, "disconnected", NoVal)>>, <<>>,
                  store, removed,
                  NoToken, FALSE, FALSE, TRUE, FALSE)
        ELSE IF tk.kind = "throw"
        THEN Turn(sub, <<>>, Caught(sub, "sub"),
                  tk.store, m,
                  tk, FALSE, FALSE, FALSE, FALSE)
        ELSE IF tk.kind = "null"
        THEN Turn(sub, <<>>, <<Failure(sub, "email", "Token refresh failed")>>,
                  tk.store, m,
                  tk, FALSE, FALSE, FALSE, FALSE)
        ELSE IF o.remote \in {"ok", "gone"}
        THEN \* deleteEvent returns { ok: true }
             IF o.kvMap
             THEN Turn(sub, <<>>, Caught(sub, "sub"),
                  tk.store, m,
                  tk, TRUE, TRUE, FALSE, FALSE)
             ELSE Turn(sub, <<Success(sub, "email", mapping.google_event_id)>>, <<>>,
                  tk.store, removed,
                  tk, TRUE, TRUE, TRUE, FALSE)
        ELSE IF o.mentions
        THEN \* the catch block: the message includes '404' or '410'
             IF o.kvMap
             THEN \* deleteEventMapping throws inside the catch block
                  Turn(sub, <<>>, <<>>,
                  tk.store, m,
                  tk, TRUE, FALSE, FALSE, TRUE)
             ELSE Turn(sub, <<Success(sub, "sub", NoVal)>>, <<>>,
                  tk.store, removed,
                  tk, TRUE, FALSE, TRUE, FALSE)
        ELSE Turn(sub, <<>>, Caught(sub, "sub"),
                  tk.store, m,
                  tk, TRUE, FALSE, FALSE, FALSE)

(***************************************************************************)
(* calendar.js: the broadcasts, one step per await-separated stage         *)
(***************************************************************************)
Started_NoPrecondition(op, chatId, uid, targets, fresh) ==
    [IdleBroadcast EXCEPT !.pc = IF Len(targets) = 0 THEN "done" ELSE "run",
                          !.op = op, !.chatId = chatId, !.uid = uid, !.fresh = fresh,
                          !.targets = targets, !.i = 1,
                          !.totalAccounts = Len(targets)]

\* the precondition check and the empty scoreboard
Started(op, chatId, uid, targets, fresh) ==
    [IdleBroadcast EXCEPT !.pc = IF Len(targets) = 0 THEN "raised" ELSE "run",
                          !.raisedBy = IF Len(targets) = 0 THEN "precondition" ELSE "none",
                          !.op = op, !.chatId = chatId, !.uid = uid, !.fresh = fresh,
                          !.targets = targets, !.i = 1,
                          !.totalAccounts = Len(targets)]

broadcastCreateEvent(chatId, uid) ==
    /\ bc.pc = "idle"
    /\ bc' = Started("create", chatId, uid, getWorkspaceConnections(conns, chatId),
                     getEventMappings(emap, chatId, uid) = <<>>)
    /\ UNCHANGED <<now, conns, emap, oauthState, issued, nextNonce, cb, passed, call,
                 selected, cmd, flight>>

broadcastUpdateEvent(chatId, uid) ==
    /\ bc.pc = "idle"
    /\ bc' = Started("update", chatId, uid, getEventMappings(emap, chatId, uid), FALSE)
    /\ UNCHANGED <<now, conns, emap, oauthState, issued, nextNonce, cb, passed, call,
                 selected, cmd, flight>>

broadcastDeleteEvent(chatId, uid) ==
    /\ bc.pc = "idle"
    /\ bc' = Started("delete", chatId, uid, getEventMappings(emap, chatId, uid), FALSE)
    /\ UNCHANGED <<now, conns, emap, oauthState, issued, nextNonce, cb, passed, call,
                 selected, cmd, flight>>

TurnOf(op, target, o) ==
    IF op = "create"
    THEN CreateTurn(conns, emap, bc.chatId, bc.uid, target, o)
    ELSE IF op = "update"
    THEN UpdateTurn(conns, emap, bc.chatId, bc.uid, target, o)
    ELSE DeleteTurn(conns, emap, bc.chatId, bc.uid, target, o)

\* the log entry of a turn with the answer of its calendar API call as the
\* caller tells it apart: deleteEvent looks at response.status (410),
\* createEvent and updateEvent only at response.ok
Answered(l, o) ==
    l @@ [status |-> IF ~l.remoteReq THEN "none"
                     ELSE IF bc.op = "delete" \/ o.remote = "ok" THEN o.remote
                     ELSE "error"]

\* one iteration of the for-loop of the running broadcast
BroadcastTurn(o) ==
    /\ bc.pc = "run"
    /\ LET target == bc.targets[bc.i]
           sub == target.google_sub
           t == TurnOf(bc.op, target, o)
       IN  /\ conns' = t.conns
           /\ emap' = t.emap
           /\ bc' = [bc EXCEPT
                 !.pc = IF t.raise THEN "raised"
                        ELSE IF bc.i = Len(bc.targets) THEN "done" ELSE "run",
                 !.raisedBy = IF t.raise THEN "turn" ELSE "none",
                 !.i = bc.i + 1,
                 !.successes = bc.successes \o t.succ,
                 !.failures = bc.failures \o t.fail,
                 !.log = Append(bc.log, Answered(t.log, o))]
    /\ UNCHANGED <<now, oauthState, issued, nextNonce, cb, passed, call,
                 selected, cmd, flight>>

\* the broadcast has returned its scoreboard, or thrown, to its caller
BroadcastReturn ==
    /\ bc.pc \in {"done", "raised"}
    /\ bc' = IdleBroadcast
    /\ UNCHANGED <<now, conns, emap, oauthState, issued, nextNonce, cb, passed, call,
                 selected, cmd, flight>>

(***************************************************************************)
(* Store operations invoked between broadcasts                             *)
(***************************************************************************)
StoreConnection(chatId, sub, user) ==
    /\ bc.pc = "idle"
    /\ conns' = storeGoogleConnection(conns, chatId, sub, Email(sub), "refresh", user)
    /\ UNCHANGED <<now, emap, oauthState, issued, nextNonce, cb, passed, bc, call,
                 selected, cmd, flight>>

UpdateAccessToken(chatId, sub, expires_in) ==
    /\ bc.pc = "idle"
    /\ conns[ConnKey(chatId, sub)] # NoVal
    /\ conns' = updateConnectionAccessToken(conns, chatId, sub, FreshToken(sub),
                                            now + expires_in * 1000)
    /\ UNCHANGED <<now, emap, oauthState, issued, nextNonce, cb, passed, bc, call,
                 selected, cmd, flight>>

RevokeConnection(chatId, sub) ==
    /\ bc.pc = "idle"
    /\ conns' = revokeGoogleConnection(conns, chatId, sub)
    /\ UNCHANGED <<now, emap, oauthState, issued, nextNonce, cb, passed, bc, call,
                 selected, cmd, flight>>

BroadcastWorkspaces == {1}

Next ==
    \/ bc.pc = "idle" /\ Tick(TickBroadcast, MaxTicksBroadcast)
    \/ \E w \in BroadcastWorkspaces, s \in Subs : StoreConnection(w, s, "u1")
    \/ \E w \in BroadcastWorkspaces, s \in Subs, e \in ExpiresIn : UpdateAccessToken(w, s, e)
    \/ \E w \in BroadcastWorkspaces, s \in Subs : RevokeConnection(w, s)
    \/ \E w \in BroadcastWorkspaces, u \in Uids : broadcastCreateEvent(w, u)
    \/ \E w \in BroadcastWorkspaces, u \in Uids : broadcastUpdateEvent(w, u)
    \/ \E w \in BroadcastWorkspaces, u \in Uids : broadcastDeleteEvent(w, u)
    \/ \E o \in Outcomes : BroadcastTurn(o)
    \/ BroadcastReturn

Spec == Init /\ [][Next]_vars

(***************************************************************************)
(* Properties of the broadcasts                                            *)
(***************************************************************************)
Scoreboard == bc.successes \o bc.failures

SubsIn(entries) == {entries[n].sub : n \in DOMAIN entries}

Entries(sub) == {k \in DOMAIN Scoreboard : Scoreboard[k].sub = sub}

\* a broadcast leaves "idle": the call reads its targets from the store
StartStep == bc.pc = "idle" /\ bc'.pc # "idle"

TargetedAccounts(op, chatId, uid) ==
    IF op = "create"
    THEN {s \in Subs : IsActive(conns, chatId, s)}
    ELSE {s \in Subs : MapKey(chatId, uid, s) \in DOMAIN emap}

\* one account's turn of the running broadcast
TurnStep == bc.pc = "run" /\ bc'.i = bc.i + 1

\* C1: whenever a broadcast (create, update, delete) returns a scoreboard,
\* totalAccounts is the number of accounts targeted (active connections for
\* create, current mappings of the uid for update and delete), every targeted
\* account appears exactly once in successes or failures, and
\* |successes| + |failures| = totalAccounts, whatever the per-account outcomes.
C1_ScoreboardComplete ==
    /\ [][StartStep =>
            /\ bc'.totalAccounts =
                    Cardinality(TargetedAccounts(bc'.op, bc'.chatId, bc'.uid))
            /\ {bc'.targets[n].google_sub : n \in DOMAIN bc'.targets} =
                    TargetedAccounts(bc'.op, bc'.chatId, bc'.uid)]_vars
    /\ [](bc.pc = "done" =>
            /\ bc.totalAccounts = Len(bc.targets)
            /\ Len(bc.successes) + Len(bc.failures) = bc.totalAccounts
            /\ \A n \in DOMAIN bc.targets :
                    Cardinality(Entries(bc.targets[n].google_sub)) = 1)

C1_Witness ==
    /\ bc.pc = "done"
    /\ bc.op = "delete"
    /\ bc.totalAccounts = 3
    /\ Len(bc.successes) >= 1
    /\ Len(bc.failures) >= 1
    /\ \E n \in DOMAIN bc.log : bc.log[n].answer = "error"

\* C2: once its precondition check has passed, a broadcast never raises: a
\* per-account failure (refresh rejected, refresh transport error, remote API
\* error, store failure while recording or removing the mapping) is recorded
\* in failures and the remaining accounts are still attempted.
C2_NeverRaises ==
    bc.pc = "raised" => bc.raisedBy = "precondition"

\* the case of C3: a create over A, B, C has returned and B's refresh was
\* rejected by the provider
C3_Case ==
    /\ bc.pc = "done"
    /\ bc.op = "create"
    /\ SubsIn(bc.log) = {"A", "B", "C"}
    /\ \E n \in DOMAIN bc.log : bc.log[n].sub = "B" /\ bc.log[n].answer = "rejected"

\* B is in failures with the credential reason; an account whose credential
\* was not resolved gets no remote call and no mapping
C3_Unresolved ==
    /\ bc.totalAccounts = 3
    /\ \E k \in DOMAIN bc.failures :
            bc.failures[k].sub = "B" /\ bc.failures[k].reason = "Token refresh failed"
    /\ \A n \in DOMAIN bc.log :
            bc.log[n].tokenKind # "token" =>
                /\ ~bc.log[n].remoteReq
                /\ ~bc.log[n].mapDone
                /\ bc.fresh => MapKey(bc.chatId, bc.uid, bc.log[n].sub) \notin DOMAIN emap

\* C3 (as stated): in a create over A, B, C where B's refresh is rejected, the
\* result is attempted 3, succeeded exactly the accounts whose remote create
\* succeeded, B failed with the credential reason; no remote call and no
\* mapping for an account whose credential could not be resolved.
C3_SucceededIsRemoteOk ==
    C3_Case =>
        /\ C3_Unresolved
        /\ SubsIn(bc.successes) = {bc.log[n].sub : n \in {k \in DOMAIN bc.log : bc.log[k].remoteOk}}

\* C3 (amended): as above, with succeeded being exactly the accounts whose
\* remote create succeeded and whose mapping was then stored.
C3_SucceededIsRemoteOkAndMapped ==
    C3_Case =>
        /\ C3_Unresolved
        /\ SubsIn(bc.successes) =
                {bc.log[n].sub : n \in {k \in DOMAIN bc.log :
                                            bc.log[k].remoteOk /\ bc.log[k].mapDone}}

C3_Witness ==
    /\ C3_Case
    /\ SubsIn(bc.successes) = {"A", "C"}
    /\ SubsIn(bc.failures) = {"B"}

\* C4: after broadcastCreateEvent returns for a fresh uid, the mappings of the
\* uid in the workspace are exactly the pairs (account, native id of that
\* account's remote create) of the accounts in successes; no mapping exists for
\* an account in failures.
C4_MappingsAreSuccesses ==
    (bc.pc = "done" /\ bc.op = "create" /\ bc.fresh) =>
        LET maps == getEventMappings(emap, bc.chatId, bc.uid)
        IN  /\ {<<maps[n].google_sub, maps[n].google_event_id>> : n \in DOMAIN maps} =
                    {<<bc.successes[n].sub, NativeId(bc.successes[n].sub, bc.uid)>> :
                        n \in DOMAIN bc.successes}
            /\ \A n \in DOMAIN bc.successes :
                    /\ MapKey(bc.chatId, bc.uid, bc.successes[n].sub) \in DOMAIN emap
                    /\ bc.successes[n].eventId =
                            emap[MapKey(bc.chatId, bc.uid, bc.successes[n].sub)].google_event_id
            /\ \A n \in DOMAIN bc.failures :
                    MapKey(bc.chatId, bc.uid, bc.failures[n].sub) \notin DOMAIN emap

C4_Witness ==
    /\ bc.pc = "done" /\ bc.op = "create" /\ bc.fresh
    /\ SubsIn(bc.successes) = {"A"}
    /\ SubsIn(bc.failures) = {"B"}
    /\ \E n \in DOMAIN bc.log :
            bc.log[n].sub = "B" /\ bc.log[n].remoteReq /\ ~bc.log[n].remoteOk
    /\ DOMAIN emap = {MapKey(bc.chatId, bc.uid, "A")}

\* the connection object handed to getValidAccessTokenForConnection in the turn
TurnConnection ==
    IF bc.op = "create"
    THEN bc.targets[bc.i]
    ELSE getGoogleConnection(conns, bc.chatId, bc.targets[bc.i].google_sub)

\* C5: getValidAccessTokenForConnection refreshes whenever the cached access
\* credential is absent or expires within 60 seconds (a connection with no
\* access_token/expires_at stored included), and on a successful refresh
\* returns the new access credential.
C5_RefreshWhenAbsentOrExpiring ==
    [][(TurnStep /\ TurnConnection # NoVal) =>
            LET c == TurnConnection
                l == bc'.log[bc.i]
            IN  (\/ c.access_token = NoVal
                 \/ c.expires_at = NoExpiry
                 \/ now >= c.expires_at - REFRESH_MARGIN_MS)
                    => /\ l.refreshReq
                       /\ (l.answer = "ok" /\ l.tokenKind # "throw")
                            => l.token = FreshToken(c.google_sub)]_vars

\* C11: in broadcastDeleteEvent, when the remote delete for an account answers
\* not found (HTTP 404) or already gone (HTTP 410), the account is counted in
\* successes and its mapping for the uid is removed.
C11_NotFoundIsSuccess ==
    bc.op = "delete" =>
        \A n \in DOMAIN bc.log :
            bc.log[n].status \in {"notfound", "gone"} =>
                /\ bc.log[n].sub \in SubsIn(bc.successes)
                /\ MapKey(bc.chatId, bc.uid, bc.log[n].sub) \notin DOMAIN emap

ActiveAccounts(chatId) == {s \in Subs : IsActive(conns, chatId, s)}

MappedAccounts(chatId, uid) == {s \in Subs : MapKey(chatId, uid, s) \in DOMAIN emap}

\* C12: broadcastDeleteEvent on a uid mapped to only k of the workspace's n
\* active accounts targets exactly those k accounts (totalAccounts = k); when
\* every targeted delete succeeds, successes lists exactly those accounts and
\* the uid has no mappings afterwards.
C12_DeleteTargetsMapped ==
    /\ [][(StartStep /\ bc'.op = "delete") =>
            /\ bc'.totalAccounts = Cardinality(MappedAccounts(bc'.chatId, bc'.uid))
            /\ {bc'.targets[n].google_sub : n \in DOMAIN bc'.targets} =
                    MappedAccounts(bc'.chatId, bc'.uid)]_vars
    /\ [](bc.pc = "done" /\ bc.op = "delete" /\ bc.failures = <<>> =>
            /\ SubsIn(bc.successes) = {bc.targets[n].google_sub : n \in DOMAIN bc.targets}
            /\ Len(bc.successes) = bc.totalAccounts
            /\ getEventMappings(emap, bc.chatId, bc.uid) = <<>>)

C12_Witness ==
    /\ bc.pc = "done" /\ bc.op = "delete" /\ bc.failures = <<>>
    /\ Cardinality(ActiveAccounts(bc.chatId)) = 3
    /\ bc.totalAccounts = 1
    /\ \E n \in DOMAIN bc.log : bc.log[n].status = "ok"

(***************************************************************************)
(* persistence.js called directly                                          *)
(***************************************************************************)
\* the connection keys and mapping keys these calls are made on: account A in
\* both workspaces, account B in workspace 1, two uids for A in workspace 1
StoreConns == {<<1, "A">>, <<1, "B">>, <<2, "A">>}
StoreMaps == {<<1, "EVT-1", "A">>, <<1, "EVT-2", "A">>, <<1, "EVT-1", "B">>,
              <<2, "EVT-1", "A">>}

RecordState(store, chatId, sub) ==
    IF store[ConnKey(chatId, sub)] = NoVal THEN "absent"
    ELSE IF store[ConnKey(chatId, sub)].revoked THEN "revoked"
    ELSE "active"

Called(op, chatId, sub, uid, prior, deleted, result) ==
    [op |-> op, chatId |-> chatId, sub |-> sub, uid |-> uid, prior |-> prior,
     deleted |-> deleted, result |-> result]

AccountKeys_AnyWorkspace(m, chatId, sub) ==
    {k \in DOMAIN m : m[k].google_sub = sub}

\* the keys deleteEventMappingsForAccount deletes: those under emap:{chatId}:
\* whose record names the account
AccountKeys(m, chatId, sub) ==
    {k \in DOMAIN m : k[1] = chatId /\ m[k].google_sub = sub}

deleteEventMappingsForAccount_FirstUid(m, chatId, sub) ==
    [k \in DOMAIN m \ {k \in AccountKeys(m, chatId, sub) : k[2] = "EVT-1"} |-> m[k]]

deleteEventMappingsForAccount(m, chatId, sub) ==
    [k \in DOMAIN m \ AccountKeys(m, chatId, sub) |-> m[k]]

\* conn.google_email === email.toLowerCase() over the active connections
findConnectionByEmail(store, chatId, email) ==
    LET list == getWorkspaceConnections(store, chatId)
        hits == {n \in DOMAIN list : list[n].google_email = email}
    IN  IF hits = {} THEN NoVal
        ELSE list[CHOOSE n \in hits : \A k \in hits : n <= k]

storeGoogleConnectionCall(chatId, sub, user) ==
    /\ conns' = storeGoogleConnection(conns, chatId, sub, Email(sub), "refresh", user)
    /\ call' = Called("store", chatId, sub, "", RecordState(conns, chatId, sub), 0, <<>>)
    /\ UNCHANGED <<now, emap, oauthState, issued, nextNonce, cb, passed, bc,
                 selected, cmd, flight>>

revokeGoogleConnectionCall(chatId, sub) ==
    /\ conns' = revokeGoogleConnection(conns, chatId, sub)
    /\ call' = Called("revoke", chatId, sub, "", RecordState(conns, chatId, sub), 0, <<>>)
    /\ UNCHANGED <<now, emap, oauthState, issued, nextNonce, cb, passed, bc,
                 selected, cmd, flight>>

\* #dis <email>: find the connection, revoke it, clean up its mappings
handleDisCommand(chatId, email) ==
    LET connection == findConnectionByEmail(conns, chatId, email)
    IN  IF connection = NoVal
        THEN /\ call' = Called("dis_not_found", chatId, email, "",
                               RecordState(conns, chatId, email), 0, <<>>)
             /\ UNCHANGED <<now, conns, emap, oauthState, issued, nextNonce, cb, passed, bc,
                 selected, cmd, flight>>
        ELSE /\ conns' = revokeGoogleConnection(conns, chatId, connection.google_sub)
             /\ emap' = deleteEventMappingsForAccount(emap, chatId, connection.google_sub)
             /\ call' = Called("disconnect", chatId, connection.google_sub, "", "active",
                               Cardinality(AccountKeys(emap, chatId, connection.google_sub)),
                               <<>>)
             /\ UNCHANGED <<now, oauthState, issued, nextNonce, cb, passed, bc,
                 selected, cmd, flight>>

storeEventMappingCall(chatId, uid, sub) ==
    /\ emap' = storeEventMapping(emap, chatId, uid, sub, NativeId(sub, uid))
    /\ call' = Called("map", chatId, sub, uid, RecordState(conns, chatId, sub), 0, <<>>)
    /\ UNCHANGED <<now, conns, oauthState, issued, nextNonce, cb, passed, bc,
                 selected, cmd, flight>>

\* the stored ciphertext is altered: decryptToken will throw on it
CorruptRecord(chatId, sub) ==
    /\ conns[ConnKey(chatId, sub)] # NoVal
    /\ conns' = [conns EXCEPT ![ConnKey(chatId, sub)] =
                    [@ EXCEPT !.refresh_token_enc = [@ EXCEPT !.intact = FALSE]]]
    /\ conns[ConnKey(chatId, sub)].refresh_token_enc.intact
    /\ call' = Called("corrupt", chatId, sub, "", "none", 0, <<>>)
    /\ UNCHANGED <<now, emap, oauthState, issued, nextNonce, cb, passed, bc,
                 selected, cmd, flight>>

getWorkspaceConnectionsCall(chatId) ==
    /\ call' = Called("list", chatId, "", "", "none", 0, getWorkspaceConnections(conns, chatId))
    /\ UNCHANGED <<now, conns, emap, oauthState, issued, nextNonce, cb, passed, bc,
                 selected, cmd, flight>>

NextStore ==
    \/ \E c \in StoreConns : storeGoogleConnectionCall(c[1], c[2], "u1")
    \/ \E c \in StoreConns : revokeGoogleConnectionCall(c[1], c[2])
    \/ \E c \in StoreConns : handleDisCommand(c[1], Email(c[2]))
    \/ \E k \in StoreMaps : storeEventMappingCall(k[1], k[2], k[3])
    \/ \E c \in StoreConns : CorruptRecord(c[1], c[2])
    \/ \E w \in Workspaces : getWorkspaceConnectionsCall(w)

SpecStore == Init /\ [][NextStore]_vars

(***************************************************************************)
(* Properties of the persistence layer                                     *)
(***************************************************************************)
Records(store, chatId) == {k \in DOMAIN store : k[1] = chatId /\ store[k] # NoVal}

\* C13: after the disconnect sequence revokeGoogleConnection(W, X) then
\* deleteEventMappingsForAccount(W, X) has completed, getEventMappings(W, uid)
\* has no entry for X for every uid of W, and every mapping of every other
\* account is unchanged.
C13_CascadeRemovesAccount ==
    [][call'.op = "disconnect" =>
        LET w == call'.chatId
            x == call'.sub
        IN  /\ conns'[ConnKey(w, x)].revoked
            /\ \A k \in StoreMaps :
                    \A n \in DOMAIN getEventMappings(emap', w, k[2]) :
                        getEventMappings(emap', w, k[2])[n].google_sub # x
            /\ DOMAIN emap' \subseteq DOMAIN emap
            /\ \A k \in DOMAIN emap :
                    (k[1] # w \/ k[3] # x) => (k \in DOMAIN emap' /\ emap'[k] = emap[k])]_vars

C13_Witness ==
    /\ call.op = "disconnect" /\ call.chatId = 1 /\ call.sub = "A"
    /\ call.deleted = 2
    /\ DOMAIN emap = {<<1, "EVT-1", "B">>, <<2, "EVT-1", "A">>}

\* C14: storeGoogleConnection is an upsert keyed by (workspace, account):
\* storing an account that already has a record in the workspace (active or
\* revoked) leaves the number of connection records of the workspace
\* unchanged and the record has revoked = false afterwards.
C14_StoreIsUpsert ==
    [][(call'.op = "store" /\ call'.prior # "absent") =>
        LET w == call'.chatId
            x == call'.sub
        IN  /\ Cardinality(Records(conns', w)) = Cardinality(Records(conns, w))
            /\ Records(conns', w) = Records(conns, w)
            /\ conns'[ConnKey(w, x)] # NoVal
            /\ ~conns'[ConnKey(w, x)].revoked
            /\ \A k \in DOMAIN conns : k # ConnKey(w, x) => conns'[k] = conns[k]]_vars

C14_Witness ==
    /\ call.op = "store" /\ call.prior = "revoked"
    /\ RecordState(conns, call.chatId, call.sub) = "active"
    /\ Cardinality(Records(conns, call.chatId)) = 2

(***************************************************************************)
(* A broadcast interleaved with a revocation (the handlers of two webhook   *)
(* requests run concurrently, each await is a point where the other runs)  *)
(* over records whose stored ciphertext may have been altered              *)
(***************************************************************************)
RaceSubs == {"A", "B"}

\* revokeGoogleConnection completes between two iterations of a running broadcast
RevokeWhileRunning(chatId, sub) ==
    /\ bc.pc = "run"
    /\ conns[ConnKey(chatId, sub)] # NoVal
    /\ ~conns[ConnKey(chatId, sub)].revoked
    /\ conns' = revokeGoogleConnection(conns, chatId, sub)
    /\ UNCHANGED <<now, emap, oauthState, issued, nextNonce, cb, passed, bc, call,
                 selected, cmd, flight>>

NextRace ==
    \/ bc.pc = "idle" /\ Tick(TickBroadcast, MaxTicksBroadcast)
    \/ \E w \in BroadcastWorkspaces, s \in RaceSubs : StoreConnection(w, s, "u1")
    \/ \E w \in BroadcastWorkspaces, s \in RaceSubs, e \in ExpiresIn : UpdateAccessToken(w, s, e)
    \/ \E w \in BroadcastWorkspaces, s \in RaceSubs : RevokeConnection(w, s)
    \/ \E w \in BroadcastWorkspaces, s \in RaceSubs : RevokeWhileRunning(w, s)
    \/ \E w \in BroadcastWorkspaces, s \in RaceSubs : bc.pc = "idle" /\ CorruptRecord(w, s)
    \/ \E w \in BroadcastWorkspaces, u \in Uids : broadcastCreateEvent(w, u)
    \/ \E w \in BroadcastWorkspaces, u \in Uids : broadcastUpdateEvent(w, u)
    \/ \E w \in BroadcastWorkspaces, u \in Uids : broadcastDeleteEvent(w, u)
    \/ \E o \in Outcomes : BroadcastTurn(o)
    \/ BroadcastReturn

SpecRace == Init /\ [][NextRace]_vars

\* C15: once revoke(W, X) has completed, no refresh request is issued with X's
\* refresh credential and no access-credential update is written to X's record
\* until X is re-linked, including by a broadcast that listed X before the
\* revocation.
C15_NoRefreshAfterRevoke ==
    [][TurnStep =>
        LET k == ConnKey(bc.chatId, bc.targets[bc.i].google_sub)
        IN  (conns[k] # NoVal /\ conns[k].revoked) =>
                /\ ~bc'.log[bc.i].refreshReq
                /\ conns'[k] = conns[k]]_vars

\* C16: a broadcast (create, update, delete) raises instead of returning a
\* scoreboard only when the workspace has zero active accounts; with at least
\* one active account it returns a scoreboard.
C16_RaisesOnlyWithoutAccounts ==
    [][(bc.pc # "raised" /\ bc'.pc = "raised") => ActiveAccounts(bc'.chatId) = {}]_vars

\* C17: broadcastUpdateEvent and broadcastDeleteEvent called with a uid that
\* has no mappings in the workspace raise an event-not-found error before any
\* credential refresh, remote call or store write: the store is unchanged.
C17_UnknownUidRaises ==
    /\ [][(StartStep /\ bc'.op \in {"update", "delete"}
                /\ MappedAccounts(bc'.chatId, bc'.uid) = {}) =>
            /\ bc'.pc = "raised"
            /\ bc'.raisedBy = "precondition"
            /\ bc'.log = <<>>
            /\ conns' = conns /\ emap' = emap]_vars
    /\ [][(bc.pc = "raised" /\ bc.raisedBy = "precondition") =>
            (bc'.pc = "idle" /\ conns' = conns /\ emap' = emap)]_vars

C17_Witness ==
    /\ bc.pc = "raised" /\ bc.raisedBy = "precondition"
    /\ bc.op = "delete"
    /\ Cardinality(ActiveAccounts(bc.chatId)) >= 2
    /\ MappedAccounts(bc.chatId, bc.uid) = {}

\* C18: broadcastUpdateEvent never creates, removes or changes a mapping:
\* whatever the per-account outcomes, the mappings are the same after as
\* before; a failed account neither undoes nor prevents the update on any
\* other account.
C18_UpdateKeepsMappings ==
    /\ [][(bc.op = "update" \/ bc'.op = "update") => emap' = emap]_vars
    /\ [](bc.pc = "done" /\ bc.op = "update" =>
            /\ Len(bc.log) = Len(bc.targets)
            /\ \A n \in DOMAIN bc.log :
                    /\ bc.log[n].sub = bc.targets[n].google_sub
                    /\ bc.log[n].remoteOk <=> bc.log[n].sub \in SubsIn(bc.successes)
                    /\ ~bc.log[n].mapDone)

C18_Witness ==
    /\ bc.pc = "done" /\ bc.op = "update"
    /\ Len(bc.log) = 3
    /\ bc.log[1].remoteReq /\ ~bc.log[1].remoteOk
    /\ bc.log[2].answer = "rejected"
    /\ bc.log[3].remoteOk
    /\ MappedAccounts(bc.chatId, bc.uid) = {"A", "B", "C"}

\* a record that is not revoked and whose refresh credential does not decrypt
Undecryptable(chatId, sub) ==
    /\ conns[ConnKey(chatId, sub)] # NoVal
    /\ ~conns[ConnKey(chatId, sub)].revoked
    /\ ~DecryptOk(conns[ConnKey(chatId, sub)].refresh_token_enc, Env)

\* C19: getWorkspaceConnections(W) returns exactly the connections of W that
\* are not revoked and whose refresh credential decrypts; a record that fails
\* decryption is left out without aborting, and no revoked one is returned.
C19_ListIsActiveDecryptable ==
    [][(call'.op = "list" /\ conns' = conns) =>
        LET w == call'.chatId
            r == call'.result
        IN  /\ {r[n].google_sub : n \in DOMAIN r} =
                    {x \in Subs : /\ conns[ConnKey(w, x)] # NoVal
                                  /\ ~conns[ConnKey(w, x)].revoked
                                  /\ conns[ConnKey(w, x)].refresh_token_enc.intact
                                  /\ conns[ConnKey(w, x)].refresh_token_enc.key
                                        = keyMaterial(Env)}
            /\ \A n \in DOMAIN r :
                    /\ r[n].chat_id = w
                    /\ ~r[n].revoked
                    /\ r[n].refresh_token = "refresh"
            /\ \A n, k \in DOMAIN r : r[n].google_sub = r[k].google_sub => n = k]_vars

C19_Witness ==
    /\ call.op = "list" /\ call.chatId = 1
    /\ Undecryptable(1, "A")
    /\ RecordState(conns, 1, "B") = "active"
    /\ Len(call.result) = 1
    /\ call.result[1].google_sub = "B"

\* C20: in every broadcast, an active connection whose stored refresh
\* credential fails to decrypt is handled like one whose refresh was rejected:
\* it is recorded in failures, no remote call is issued for it and its
\* mappings are left in place.
C20_UndecryptableIsCredentialFailure ==
    bc.pc = "done" =>
        \A s \in Subs :
            (/\ Undecryptable(bc.chatId, s)
             /\ \/ bc.op = "create"
                \/ \E n \in DOMAIN bc.targets : bc.targets[n].google_sub = s) =>
                /\ s \in SubsIn(bc.failures)
                /\ s \notin SubsIn(bc.successes)
                /\ \A n \in DOMAIN bc.log : bc.log[n].sub = s => ~bc.log[n].remoteReq
                /\ bc.op # "create" => MapKey(bc.chatId, bc.uid, s) \in DOMAIN emap

FailedWith(sub, reason) ==
    \E k \in DOMAIN bc.failures : bc.failures[k].sub = sub /\ bc.failures[k].reason = reason

RefreshRequests(sub) == {n \in DOMAIN bc.log : bc.log[n].sub = sub /\ bc.log[n].refreshReq}

\* C22: within one broadcast invocation at most one refresh request is sent
\* per connection, whatever the number of accounts and their token states.
C22_OneRefreshPerConnection ==
    \A s \in Subs : Cardinality(RefreshRequests(s)) <= 1

C22_Witness ==
    /\ bc.pc = "done"
    /\ bc.op = "create"
    /\ \A s \in Subs : Cardinality(RefreshRequests(s)) = 1

\* C23: revokeGoogleConnection is idempotent and a soft delete: on an absent
\* connection it creates no record, on a revoked one the record stays revoked,
\* on an active one the record is kept with revoked = true; applying it twice
\* leaves the same state as applying it once.
C23_RevokeIsIdempotentSoftDelete ==
    [][call'.op = "revoke" =>
        LET k == ConnKey(call'.chatId, call'.sub)
        IN  /\ call'.prior = "absent" => conns'[k] = NoVal
            /\ call'.prior = "revoked" => conns'[k] = conns[k]
            /\ call'.prior = "active" =>
                    /\ conns'[k] # NoVal
                    /\ conns'[k] = [conns[k] EXCEPT !.revoked = TRUE]
            /\ call'.prior # "absent" => conns'[k].revoked
            /\ \A j \in DOMAIN conns : j # k => conns'[j] = conns[j]
            /\ emap' = emap
            /\ revokeGoogleConnection(conns', call'.chatId, call'.sub) = conns']_vars

C23_Witness ==
    /\ call.op = "revoke" /\ call.prior = "revoked"
    /\ RecordState(conns, call.chatId, call.sub) = "revoked"
    /\ \E c \in StoreConns : RecordState(conns, c[1], c[2]) = "absent"

(***************************************************************************)
(* Broadcasts whose external calls may never be answered; the runtime keeps *)
(* running a handler whose awaited promise has resolved (weak fairness)     *)
(***************************************************************************)
\* the current turn sends a request to the token endpoint or the calendar API
TurnMakesCall ==
    /\ TurnConnection # NoVal
    /\ NeedsRefresh(TurnConnection) \/ TurnConnection.access_token # NoVal

\* `await fetch(...)` of the current turn: no answer ever arrives, and the
\* call carries no timeout or abort signal
AwaitNeverResolves ==
    /\ bc.pc = "run"
    /\ TurnMakesCall
    /\ bc' = [bc EXCEPT !.pc = "blocked"]
    /\ UNCHANGED <<now, conns, emap, oauthState, issued, nextNonce, cb, passed, call,
                 selected, cmd, flight>>

NextLive ==
    \/ bc.pc = "idle" /\ Tick(TickBroadcast, MaxTicksBroadcast)
    \/ \E w \in BroadcastWorkspaces, s \in RaceSubs : StoreConnection(w, s, "u1")
    \/ \E w \in BroadcastWorkspaces, s \in RaceSubs, e \in ExpiresIn : UpdateAccessToken(w, s, e)
    \/ \E w \in BroadcastWorkspaces, u \in Uids : broadcastCreateEvent(w, u)
    \/ \E w \in BroadcastWorkspaces, u \in Uids : broadcastUpdateEvent(w, u)
    \/ \E w \in BroadcastWorkspaces, u \in Uids : broadcastDeleteEvent(w, u)
    \/ \E o \in Outcomes : BroadcastTurn(o)
    \/ AwaitNeverResolves
    \/ BroadcastReturn

SpecLive ==
    /\ Init
    /\ [][NextLive]_vars
    /\ WF_vars(\E o \in Outcomes : BroadcastTurn(o))
    /\ WF_vars(BroadcastReturn)

\* C24: if one account's external call (token refresh or remote calendar
\* write) never responds, the broadcast still eventually returns (or raises)
\* and the other targeted accounts are still attempted.
C24_BroadcastEventuallyReturns ==
    (bc.pc = "run") ~> (bc.pc \in {"done", "raised"})

(***************************************************************************)
(* Two workspaces sharing one store: account A linked in both               *)
(***************************************************************************)
\* the connection keys used here: the same account in both workspaces
IsoConns == {<<1, "A">>, <<2, "A">>}

NextIso ==
    \/ bc.pc = "idle" /\ Tick(TickBroadcast, MaxTicksBroadcast)
    \/ \E c \in IsoConns : bc.pc = "idle" /\ storeGoogleConnectionCall(c[1], c[2], "u1")
    \/ \E c \in IsoConns, e \in ExpiresIn : UpdateAccessToken(c[1], c[2], e)
    \/ \E c \in IsoConns : bc.pc = "idle" /\ handleDisCommand(c[1], Email(c[2]))
    \/ \E w \in Workspaces, u \in Uids : broadcastCreateEvent(w, u)
    \/ \E w \in Workspaces, u \in Uids : broadcastUpdateEvent(w, u)
    \/ \E w \in Workspaces, u \in Uids : broadcastDeleteEvent(w, u)
    \/ \E o \in Outcomes : BroadcastTurn(o)
    \/ BroadcastReturn

SpecIso == Init /\ [][NextIso]_vars

\* the workspaces in which a step changed a connection record or a mapping
Touched ==
    {w \in Workspaces :
        \/ \E k \in DOMAIN conns : k[1] = w /\ conns'[k] # conns[k]
        \/ \E k \in DOMAIN emap \cup DOMAIN emap' :
                /\ k[1] = w
                /\ \/ k \notin DOMAIN emap
                   \/ k \notin DOMAIN emap'
                   \/ emap'[k] # emap[k]}

\* C25: workspaces are independent partitions: no operation invoked for
\* workspace W (store or revoke a connection, record, remove or cascade-remove
\* mappings, any broadcast) returns or modifies a connection or mapping of a
\* different workspace, also when the same account is linked in both.
C25_WorkspacesAreIsolated ==
    /\ [][/\ Cardinality(Touched) <= 1
          /\ call' # call => Touched \subseteq {call'.chatId}
          /\ (bc.pc = "run" \/ bc'.pc = "run") => Touched \subseteq {bc'.chatId}]_vars
    /\ [](bc.pc # "idle" =>
            /\ \A n \in DOMAIN bc.targets :
                    bc.op = "create" => bc.targets[n].chat_id = bc.chatId
            /\ \A s \in SubsIn(Scoreboard) : conns[ConnKey(bc.chatId, s)] # NoVal)

C25_Witness ==
    /\ bc.pc = "done" /\ bc.op = "delete" /\ bc.chatId = 1
    /\ SubsIn(bc.successes) = {"A"}
    /\ RecordState(conns, 2, "A") = "active"
    /\ conns[ConnKey(2, "A")].access_token # NoVal
    /\ DOMAIN emap = {MapKey(2, "EVT-1", "A")}
    /\ \E n \in DOMAIN bc.log : bc.log[n].refreshReq /\ bc.log[n].answer = "ok"

(***************************************************************************)
(* persistence.js: encryptToken and decryptToken as functions of the token *)
(* and of the configured secret                                            *)
(***************************************************************************)
RefreshTokens == {"refresh", "refresh-2", "refresh-3"}

\* configured secrets: two that share their first 32 bytes, one that differs
\* within them, a 16-byte one, a 20-byte one, and an unset one
EncryptionKeys == {KeyOf(32, 0, <<1>>), KeyOf(32, 0, <<2>>), KeyOf(32, 1, <<>>),
                   KeyOf(16, 0, <<>>), KeyOf(20, 0, <<>>), <<>>}

EnvWith(k) == [Env EXCEPT !.ENCRYPTION_KEY = k]

\* encryptToken(token, env) with env.ENCRYPTION_KEY = k
encryptTokenCall(token, k) ==
    /\ call' = Called("encrypt", 0, "", "", "stored", 0,
                      [token |-> token, key |-> k, dkey |-> k,
                       raised |-> ~ImportOk(EnvWith(k)),
                       value |-> IF ImportOk(EnvWith(k))
                                 THEN encryptToken(token, EnvWith(k)) ELSE NoVal,
                       out |-> NoVal])
    /\ UNCHANGED <<now, conns, emap, oauthState, issued, nextNonce, cb, passed, bc,
                 selected, cmd, flight>>

\* the stored value is altered between encryption and decryption
TamperValue ==
    /\ call.op = "encrypt" /\ ~call.result.raised /\ call.prior = "stored"
    /\ call' = [call EXCEPT !.prior = "tampered", !.result.value.intact = FALSE]
    /\ UNCHANGED <<now, conns, emap, oauthState, issued, nextNonce, cb, passed, bc,
                 selected, cmd, flight>>

\* decryptToken(value, env) with env.ENCRYPTION_KEY = k on the value at hand
decryptTokenCall(k) ==
    /\ call.op = "encrypt" /\ ~call.result.raised
    /\ LET enc == call.result.value
           ok == DecryptOk(enc, EnvWith(k))
       IN  call' = [call EXCEPT !.op = "decrypt",
                                !.result.dkey = k,
                                !.result.raised = ~ok,
                                !.result.out = IF ok THEN decryptToken(enc, EnvWith(k))
                                               ELSE NoVal]
    /\ UNCHANGED <<now, conns, emap, oauthState, issued, nextNonce, cb, passed, bc,
                 selected, cmd, flight>>

NextCrypto ==
    \/ \E t \in RefreshTokens, k \in EncryptionKeys : encryptTokenCall(t, k)
    \/ TamperValue
    \/ \E k \in EncryptionKeys : decryptTokenCall(k)

SpecCrypto == Init /\ [][NextCrypto]_vars

\* C26: decrypting what was encrypted returns the token when the stored value
\* is unaltered and the configured key is the same, and raises instead of
\* returning a value when the stored value was altered or the configured key
\* is a different one.
C26_RoundTripOrRaise ==
    call.op = "decrypt" =>
        IF call.prior = "stored" /\ call.result.dkey = call.result.key
        THEN ~call.result.raised /\ call.result.out = call.result.token
        ELSE call.result.raised /\ call.result.out = NoVal

\* C26, on key bytes: the same with "the same key" read as "the same first 32
\* bytes of the configured secret"
C26_RoundTripOnKeyBytes ==
    call.op = "decrypt" =>
        IF /\ call.prior = "stored"
           /\ keyMaterial(EnvWith(call.result.dkey)) = keyMaterial(EnvWith(call.result.key))
        THEN ~call.result.raised /\ call.result.out = call.result.token
        ELSE call.result.raised /\ call.result.out = NoVal

\* C26: a value encrypted under one secret decrypts under a different secret
C26_DifferentKeyDecrypts ==
    /\ call.op = "decrypt" /\ call.prior = "stored"
    /\ call.result.key # call.result.dkey
    /\ ~call.result.raised /\ call.result.out = call.result.token

(***************************************************************************)
(* eventUid.js and the selected-event record of persistence.js             *)
(***************************************************************************)
\* number of hex digits of an identifier in the model (the code's 8)
UidLen == 1
\* the lowercase hex digits crypto.randomUUID() is drawn from, a digit and a letter
HexDigits == {"7", "a"}

\* String.prototype.toUpperCase on the characters the model writes
ToUpper(c) ==
    CASE c = "a" -> "A" [] c = "d" -> "D" [] c = "e" -> "E" [] c = "l" -> "L"
      [] c = "t" -> "T" [] c = "v" -> "V" [] c = "p" -> "P" [] c = "m" -> "M"
      [] OTHER -> c
toUpperCase(w) == [i \in 1..Len(w) |-> ToUpper(w[i])]

\* `EVT-${uuid.split('-')[0]}`: the prefix and the first segment of the uuid
generateEventUID(hex) == <<"E", "V", "T", "-">> \o hex
GeneratedUids == {generateEventUID(h) : h \in [1..UidLen -> HexDigits]}

\* a text is a sequence of words, a word a sequence of characters;
\* /EVT-[0-9a-f]{8}/i on a word
MatchesUid(w) ==
    /\ Len(w) = 4 + UidLen
    /\ toUpperCase(SubSeq(w, 1, 4)) = <<"E", "V", "T", "-">>
    /\ \A i \in 5..Len(w) :
          ToUpper(w[i]) \in {"0", "1", "2", "3", "4", "5", "6", "7", "8", "9",
                             "A", "B", "C", "D", "E", "F"}

\* an absent identifier (null)
NoUid == <<>>

\* text.match(...) ? match[0].toUpperCase() : null
extractEventUID(text) ==
    LET hits == SelectSeq(text, MatchesUid)
    IN  IF hits = <<>> THEN NoUid ELSE toUpperCase(hits[1])

isValidEventUID(uid) == MatchesUid(uid)

\* rec.f of a stored JSON object: undefined when the object has no such field
Field(rec, f) == IF f \in DOMAIN rec THEN rec[f] ELSE NoUid

getSelectedEvent(sel, chatId, userId) == sel[<<chatId, userId>>]

\* the record is { eventId, event, createdAt }; createdAt is not modelled
setSelectedEvent(sel, chatId, userId, eventId, event) ==
    [sel EXCEPT ![<<chatId, userId>>] = [eventId |-> eventId, event |-> event]]

clearSelectedEvent(sel, chatId, userId) ==
    [sel EXCEPT ![<<chatId, userId>>] = NoVal]

\* the explicit reference in the input if there is one, else
\* selected.bot_event_uid of the user's selected-event record, else null
resolveEventUID(sel, chatId, userId, input) ==
    LET extracted == IF input # <<>> THEN extractEventUID(input) ELSE NoUid
        picked == getSelectedEvent(sel, chatId, userId)
    IN  IF extracted # NoUid /\ isValidEventUID(extracted)
        THEN extracted
        ELSE IF picked # NoVal /\ Field(picked, "bot_event_uid") # NoUid
        THEN Field(picked, "bot_event_uid")
        ELSE NoUid

(***************************************************************************)
(* telegram.js: the #cal, #alt and #del handlers                           *)
(***************************************************************************)
CmdChats == {1}
CmdSubs == {"A"}

HashCal == <<"#", "c", "a", "l">>
HashAlt == <<"#", "a", "l", "t">>
HashDel == <<"#", "d", "e", "l">>
\* a reference as the confirmation message shows it, or typed in capitals
References == GeneratedUids \cup {toUpperCase(u) : u \in GeneratedUids}
DelTexts == {<<HashDel>>} \cup {<<HashDel, r>> : r \in References}
AltTexts == {<<HashAlt, <<"3", "p", "m">>>>} \cup
            {<<HashAlt, r, <<"3", "p", "m">>>> : r \in References}

\* the answers the first-token step of #cal can get (it makes no calendar
\* write and no mapping write)
TokenOutcomes == {o \in Outcomes : o.remote = "ok" /\ ~o.mentions /\ ~o.kvMap}

Command(name, chatId, userId, text) ==
    [NoCommand EXCEPT !.name = name, !.chatId = chatId, !.userId = userId,
                      !.text = text]

\* handleCalCommand up to the call of broadcastCreateEvent; parsed is the
\* outcome of the steps between the first token and the identifier
handleCalCommand(chatId, userId, hex, o, parsed) ==
    /\ cmd.pc = "idle" /\ bc.pc = "idle"
    /\ LET connections == getWorkspaceConnections(conns, chatId)
           c == Command("cal", chatId, userId, <<HashCal>>)
           uid == generateEventUID(hex)
       IN  IF connections = <<>>
           THEN /\ cmd' = [c EXCEPT !.reply = "no-accounts"]
                /\ UNCHANGED <<conns, bc>>
           ELSE LET tk == getValidAccessTokenForConnection(conns, connections[1], o)
                IN  /\ conns' = tk.store
                    /\ IF tk.kind = "throw" \/ parsed = "error"
                       THEN cmd' = [c EXCEPT !.reply = "error"] /\ UNCHANGED bc
                       ELSE IF parsed = "clarify"
                       THEN cmd' = [c EXCEPT !.reply = "clarify"] /\ UNCHANGED bc
                       ELSE /\ cmd' = [c EXCEPT !.pc = "broadcast", !.uid = uid]
                            /\ bc' = Started("create", chatId, uid,
                                        getWorkspaceConnections(tk.store, chatId),
                                        getEventMappings(emap, chatId, uid) = <<>>)
    /\ UNCHANGED <<now, emap, oauthState, issued, nextNonce, cb, passed, call, selected, flight>>

\* handleAltCommand up to the call of broadcastUpdateEvent
handleAltCommand(chatId, userId, text, parsed) ==
    /\ cmd.pc = "idle" /\ bc.pc = "idle"
    /\ LET connections == getWorkspaceConnections(conns, chatId)
           c == Command("alt", chatId, userId, text)
           uid == resolveEventUID(selected, chatId, userId, Tail(text))
       IN  IF connections = <<>>
           THEN cmd' = [c EXCEPT !.reply = "no-accounts"] /\ UNCHANGED bc
           ELSE IF uid = NoUid \/ getSelectedEvent(selected, chatId, userId) = NoVal
           THEN cmd' = [c EXCEPT !.reply = "no-event-selected"] /\ UNCHANGED bc
           ELSE IF parsed # "ok"
           THEN cmd' = [c EXCEPT !.reply = parsed, !.uid = uid] /\ UNCHANGED bc
           ELSE /\ cmd' = [c EXCEPT !.pc = "broadcast", !.uid = uid]
                /\ bc' = Started("update", chatId, uid,
                                 getEventMappings(emap, chatId, uid), FALSE)
    /\ UNCHANGED <<now, conns, emap, oauthState, issued, nextNonce, cb, passed, call,
                   selected, flight>>

\* handleDelCommand up to the call of broadcastDeleteEvent
handleDelCommand(chatId, userId, text) ==
    /\ cmd.pc = "idle" /\ bc.pc = "idle"
    /\ LET connections == getWorkspaceConnections(conns, chatId)
           c == Command("del", chatId, userId, text)
           uid == resolveEventUID(selected, chatId, userId, text)
       IN  IF connections = <<>>
           THEN cmd' = [c EXCEPT !.reply = "no-accounts"] /\ UNCHANGED bc
           ELSE IF uid = NoUid
           THEN cmd' = [c EXCEPT !.reply = "no-event-selected"] /\ UNCHANGED bc
           ELSE /\ cmd' = [c EXCEPT !.pc = "broadcast", !.uid = uid]
                /\ bc' = Started("delete", chatId, uid,
                                 getEventMappings(emap, chatId, uid), FALSE)
    /\ UNCHANGED <<now, conns, emap, oauthState, issued, nextNonce, cb, passed, call,
                   selected, flight>>

\* the handler after its broadcast returned or threw: the selected-event
\* record is written (#cal, #alt) or cleared (#del) and the reply is sent
CommandResume ==
    /\ cmd.pc = "broadcast" /\ bc.pc \in {"done", "raised"}
    /\ bc' = IdleBroadcast
    /\ IF bc.pc = "raised"
       THEN /\ cmd' = [cmd EXCEPT !.pc = "idle", !.reply = "error"]
            /\ UNCHANGED selected
       ELSE IF cmd.name = "del"
       THEN /\ selected' = clearSelectedEvent(selected, cmd.chatId, cmd.userId)
            /\ cmd' = [cmd EXCEPT !.pc = "idle", !.reply = "deleted"]
       ELSE /\ selected' = setSelectedEvent(selected, cmd.chatId, cmd.userId, cmd.uid,
                                            [bot_event_uid |-> cmd.uid])
            /\ cmd' = [cmd EXCEPT !.pc = "idle",
                                  !.reply = IF cmd.name = "cal" THEN "created"
                                            ELSE "updated"]
    /\ UNCHANGED <<now, conns, emap, oauthState, issued, nextNonce, cb, passed, call, flight>>

\* the KV expiry of a selected-event record (expirationTtl: 86400)
SelectedExpires(chatId, userId) ==
    /\ cmd.pc = "idle"
    /\ selected[<<chatId, userId>>] # NoVal
    /\ selected' = clearSelectedEvent(selected, chatId, userId)
    /\ UNCHANGED <<now, conns, emap, oauthState, issued, nextNonce, cb, passed, bc, call,
                   cmd, flight>>

NextCommands ==
    \/ bc.pc = "idle" /\ cmd.pc = "idle" /\ Tick(TickBroadcast, MaxTicksBroadcast)
    \/ \E w \in CmdChats, x \in CmdSubs : cmd.pc = "idle" /\ StoreConnection(w, x, "u1")
    \/ \E w \in CmdChats, x \in CmdSubs, e \in ExpiresIn :
            cmd.pc = "idle" /\ UpdateAccessToken(w, x, e)
    \/ \E w \in CmdChats, u \in Users, h \in [1..UidLen -> HexDigits], o \in TokenOutcomes,
          parsed \in {"ok", "clarify", "error"} : handleCalCommand(w, u, h, o, parsed)
    \/ \E w \in CmdChats, u \in Users, t \in AltTexts, parsed \in {"ok", "clarify", "error"} :
            handleAltCommand(w, u, t, parsed)
    \/ \E w \in CmdChats, u \in Users, t \in DelTexts : handleDelCommand(w, u, t)
    \/ \E o \in Outcomes : BroadcastTurn(o)
    \/ CommandResume
    \/ \E w \in CmdChats, u \in Users : SelectedExpires(w, u)

SpecCommands == Init /\ [][NextCommands]_vars

\* the step in which a handler resolves the identifier it will broadcast for
Resolves(name) == cmd.pc = "idle" /\ cmd'.name = name /\ bc.pc = "idle"

\* C27: a '#del <reference>' whose reference is an identifier #cal generated
\* and recorded mappings for resolves to exactly that identifier and finds the
\* mappings recorded for it.
C27_ReferenceFindsEvent ==
    [][\A u \in GeneratedUids :
          (/\ Resolves("del")
           /\ cmd'.text = <<HashDel, u>>
           /\ getWorkspaceConnections(conns, cmd'.chatId) # <<>>
           /\ getEventMappings(emap, cmd'.chatId, u) # <<>>)
          => /\ extractEventUID(cmd'.text) = u
             /\ cmd'.uid = u
             /\ bc'.pc = "run"
             /\ bc'.targets = getEventMappings(emap, cmd'.chatId, u)]_vars

\* C28: a '#del' or '#alt' without a reference, from a user whose
\* selected-event record is stored and names an event with mappings, resolves
\* to the identifier in that record.
C28_NoReferenceResolvesToSelected ==
    [][(/\ Resolves("del") \/ Resolves("alt")
        /\ cmd'.text \in {<<HashDel>>, <<HashAlt, <<"3", "p", "m">>>>}
        /\ getWorkspaceConnections(conns, cmd'.chatId) # <<>>
        /\ selected[<<cmd'.chatId, cmd'.userId>>] # NoVal
        /\ getEventMappings(emap, cmd'.chatId,
                            selected[<<cmd'.chatId, cmd'.userId>>].eventId) # <<>>)
       => cmd'.uid = selected[<<cmd'.chatId, cmd'.userId>>].eventId]_vars

(***************************************************************************)
(* The first broadcast after an account was linked                         *)
(***************************************************************************)
\* C29: in a create broadcast, the turn of an account whose record is as
\* storeGoogleConnection wrote it, and in which no call that was made failed,
\* puts the account in successes and records its mapping.
C29_LinkedAccountGetsEvent ==
    [][(/\ TurnStep /\ bc.op = "create"
        /\ conns[ConnKey(bc.chatId, bc.targets[bc.i].google_sub)] =
                NewConnection(bc.chatId, bc.targets[bc.i].google_sub,
                              Email(bc.targets[bc.i].google_sub), "refresh", "u1")
        /\ bc.targets[bc.i].access_token = NoVal
        /\ LET l == bc'.log[bc.i]
           IN  /\ l.refreshReq => l.answer = "ok" /\ l.tokenKind # "throw"
               /\ l.remoteReq => l.remoteOk
               /\ l.remoteOk => l.mapDone)
       => /\ bc.targets[bc.i].google_sub \in SubsIn(bc'.successes)
          /\ MapKey(bc.chatId, bc.uid, bc.targets[bc.i].google_sub) \in DOMAIN emap']_vars

(***************************************************************************)
(* Who can start a handshake: #aut (telegram.js), canLinkCalendar          *)
(* (chatAdmin.js) and GET /oauth/start (index.js)                          *)
(***************************************************************************)
\* the people who send requests: a group administrator, an ordinary member
\* and the bot owner
LinkUsers == {"u1", "u2", "u9"}
\* chat 1 is a group, chat 2 a private chat
GroupChats == {1}
\* result.status of Telegram's getChatMember for the group
ChatMemberStatus(userId) == IF userId = "u1" THEN "administrator" ELSE "member"
\* what the getChatMember request can answer for a user
MemberAnswers(userId) == {ChatMemberStatus(userId), "api_error"}

canLinkCalendar(env, userId, chatType, answer) ==
    IF userId = env.ADMIN_USER_ID THEN [allowed |-> TRUE, reason |-> "bot_admin"]
    ELSE IF chatType = "private" THEN [allowed |-> TRUE, reason |-> "private_chat"]
    ELSE IF answer = "api_error" THEN [allowed |-> FALSE, reason |-> "api_error"]
    ELSE IF answer \in {"administrator", "creator"}
    THEN [allowed |-> TRUE, reason |-> "telegram_admin"]
    ELSE [allowed |-> FALSE, reason |-> "not_admin"]

\* '#aut' in a chat: the permission check, then the message with the
\* /oauth/start link for this chat and user; cmd.uid carries the link's
\* query parameters, cmd.text stays empty
handleAutCommand(chatId, userId, chatType, answer) ==
    /\ cmd.pc = "idle"
    /\ LET permission == canLinkCalendar(Env, userId, chatType, answer)
           c == Command("aut", chatId, userId, <<>>)
       IN  cmd' = IF ~permission.allowed
                  THEN [c EXCEPT !.reply = IF permission.reason = "not_admin"
                                           THEN "admin-only" ELSE "check-failed"]
                  ELSE [c EXCEPT !.reply = "link", !.uid = <<chatId, userId, chatType>>]
    /\ UNCHANGED <<now, conns, emap, oauthState, issued, nextNonce, cb, passed, bc, call,
                   selected, flight>>

\* GET /oauth/start?chatId=..&userId=..&chatType=..: the parameters are the
\* request's, whoever sends it
OAuthStart(chatId, userId, chatType) == generateOAuthUrl(chatId, userId, chatType)

NextLink ==
    \/ \E w \in Workspaces, u \in LinkUsers : \E a \in MemberAnswers(u) :
            handleAutCommand(w, u, IF w \in GroupChats THEN "group" ELSE "private", a)
    \/ \E c \in ChatIdStrings, u \in LinkUsers, t \in ChatTypes : OAuthStart(c, u, t)

SpecLink == Init /\ [][NextLink]_vars

\* the users the permission check admits to link in a group
MayLinkInGroup(userId) ==
    \E a \in MemberAnswers(userId) : canLinkCalendar(Env, userId, "group", a).allowed

\* C30: every signed handshake token issued for a group names, as its
\* initiator, a user whom the link-permission check admits (a group
\* administrator or the bot admin).
C30_TokensOnlyForPermitted ==
    \A s \in issued :
        ParseInt(s.chatId) \in GroupChats => MayLinkInGroup(s.initiatedBy)

(***************************************************************************)
(* What broadcastDeleteEvent leaves in the mapping table                   *)
(***************************************************************************)
\* C31: when broadcastDeleteEvent has returned, the mapping of a targeted
\* account is absent exactly when the account is in successes, and every
\* account in failures still has its mapping with the native event id it had.
C31_MappingGoneIffSucceeded ==
    (bc.pc = "done" /\ bc.op = "delete") =>
        \A n \in DOMAIN bc.targets :
            LET sub == bc.targets[n].google_sub
                key == MapKey(bc.chatId, bc.uid, sub)
            IN  /\ key \notin DOMAIN emap <=> sub \in SubsIn(bc.successes)
                /\ sub \in SubsIn(bc.failures) =>
                        /\ key \in DOMAIN emap
                        /\ emap[key] = bc.targets[n]

C31_Witness ==
    /\ bc.pc = "done" /\ bc.op = "delete"
    /\ \E x, y \in SubsIn(Scoreboard) :
            /\ x \in SubsIn(bc.successes) /\ y \in SubsIn(bc.failures)
            /\ MapKey(bc.chatId, bc.uid, x) \notin DOMAIN emap
            /\ MapKey(bc.chatId, bc.uid, y) \in DOMAIN emap
    /\ \E n \in DOMAIN bc.log : bc.log[n].remoteReq /\ bc.log[n].status = "error"
    /\ \E n \in DOMAIN bc.log : bc.log[n].tokenKind = "null"

\* the turn of a delete broadcast for a mapping whose connection record is
\* absent or revoked
DisconnectedTurn ==
    /\ TurnStep /\ bc.op = "delete"
    /\ RecordState(conns, bc.chatId, bc.targets[bc.i].google_sub) \in {"absent", "revoked"}

RmwConns == {<<1, "A">>, <<1, "B">>}

\* the keys whose revokeGoogleConnection has completed and which have not
\* been linked again since
RevokeCompleted(f) == f["revoke"].completed

\* updateConnectionAccessToken up to the return of its get
updateConnectionAccessTokenRead(chatId, sub, expires_in) ==
    /\ flight["refresh"].pc = "idle"
    /\ conns[ConnKey(chatId, sub)] # NoVal    \* otherwise 'Connection not found'
    /\ flight' = [flight EXCEPT !["refresh"] =
                    [pc |-> "read", key |-> ConnKey(chatId, sub),
                     data |-> [conns[ConnKey(chatId, sub)] EXCEPT
                                    !.access_token = FreshToken(sub),
                                    !.expires_at = now + expires_in * 1000]]]
    /\ UNCHANGED <<now, conns, emap, oauthState, issued, nextNonce, cb, passed, bc, call,
                   selected, cmd>>

\* its put of the object it read and changed
updateConnectionAccessTokenWrite ==
    /\ flight["refresh"].pc = "read"
    /\ conns' = [conns EXCEPT ![flight["refresh"].key] = flight["refresh"].data]
    /\ flight' = [flight EXCEPT !["refresh"] = Landed]
    /\ UNCHANGED <<now, emap, oauthState, issued, nextNonce, cb, passed, bc, call,
                   selected, cmd>>

\* revokeGoogleConnection up to the return of its get
revokeGoogleConnectionRead(chatId, sub) ==
    /\ flight["revoke"].pc \in {"idle", "done"}
    /\ conns[ConnKey(chatId, sub)] # NoVal    \* otherwise it returns at once
    /\ flight' = [flight EXCEPT !["revoke"] =
                    [pc |-> "read", key |-> ConnKey(chatId, sub),
                     data |-> [conns[ConnKey(chatId, sub)] EXCEPT !.revoked = TRUE],
                     completed |-> IF flight["revoke"].pc = "done"
                                   THEN RevokeCompleted(flight) ELSE {}]]
    /\ UNCHANGED <<now, conns, emap, oauthState, issued, nextNonce, cb, passed, bc, call,
                   selected, cmd>>

\* its put; the revoke has completed
revokeGoogleConnectionWrite ==
    /\ flight["revoke"].pc = "read"
    /\ conns' = [conns EXCEPT ![flight["revoke"].key] = flight["revoke"].data]
    /\ flight' = [flight EXCEPT !["revoke"] =
                    [pc |-> "done",
                     completed |-> flight["revoke"].completed \cup {flight["revoke"].key}]]
    /\ UNCHANGED <<now, emap, oauthState, issued, nextNonce, cb, passed, bc, call,
                   selected, cmd>>

\* storeGoogleConnection (a single put): the account is linked again
storeGoogleConnectionRelink(chatId, sub) ==
    /\ conns' = storeGoogleConnection(conns, chatId, sub, Email(sub), "refresh", "u1")
    /\ flight' = IF flight["revoke"].pc = "idle"
                 THEN flight
                 ELSE [flight EXCEPT !["revoke"].completed = @ \ {ConnKey(chatId, sub)}]
    /\ UNCHANGED <<now, emap, oauthState, issued, nextNonce, cb, passed, bc, call,
                   selected, cmd>>

NextRmw ==
    \/ Tick(TickBroadcast, MaxTicksBroadcast)
    \/ \E c \in RmwConns : storeGoogleConnectionRelink(c[1], c[2])
    \/ \E c \in RmwConns, e \in ExpiresIn : updateConnectionAccessTokenRead(c[1], c[2], e)
    \/ updateConnectionAccessTokenWrite
    \/ \E c \in RmwConns : revokeGoogleConnectionRead(c[1], c[2])
    \/ revokeGoogleConnectionWrite

SpecRmw == Init /\ [][NextRmw]_vars

\* C33: once revokeGoogleConnection(W, X) has completed, X's record has
\* revoked = true until storeGoogleConnection links X again, whatever token
\* refresh runs at the same time.
C33_RevocationIsDurable ==
    flight["revoke"].pc # "idle" =>
        \A k \in RevokeCompleted(flight) : conns[k] # NoVal /\ conns[k].revoked

(***************************************************************************)
(* oauth.js: two invocations of handleOAuthCallback at the same time. The  *)
(* handler awaits the get of the marker, then the delete of the marker,    *)
(* then the credential exchange.                                           *)
(***************************************************************************)
Callbacks == {"callback1", "callback2"}

\* handleOAuthCallback up to the return of env.EVENTS.get(stateKey)
CallbackGet(p, code, state) ==
    /\ flight[p].pc = "idle"
    /\ LET stateData == parseAndVerifyState(state, Env.OAUTH_STATE_SECRET)
       IN  flight' = [flight EXCEPT ![p] =
                IF stateData = NoVal
                THEN [pc |-> "done", state |-> state, outcome |-> "invalid_state",
                      exchange |-> FALSE]
                ELSE [pc |-> "read", state |-> state, code |-> code,
                      stateData |-> stateData,
                      marker |-> KVGetState(oauthState, state)]]
    /\ UNCHANGED <<now, conns, emap, oauthState, issued, nextNonce, cb, passed, bc, call,
                   selected, cmd>>

\* the checks on the marker it got and the delete of the marker
CallbackConsume(p) ==
    /\ flight[p].pc = "read"
    /\ LET f == flight[p]
       IN  IF f.marker = NoVal
           THEN /\ flight' = [flight EXCEPT ![p] =
                        [pc |-> "done", state |-> f.state, outcome |-> "no_marker",
                         exchange |-> FALSE]]
                /\ UNCHANGED <<oauthState, passed>>
           ELSE IF StateExpired(f.marker)
           THEN /\ flight' = [flight EXCEPT ![p] =
                        [pc |-> "done", state |-> f.state, outcome |-> "expired",
                         exchange |-> FALSE]]
                /\ oauthState' = KVDelete(oauthState, f.state)
                /\ UNCHANGED passed
           ELSE /\ flight' = [flight EXCEPT ![p] = [f EXCEPT !.pc = "passed"]]
                /\ oauthState' = ConsumeState(oauthState, f.state)
                /\ passed' = IF f.state \in DOMAIN passed
                             THEN [passed EXCEPT ![f.state] = @ + 1]
                             ELSE passed
    /\ UNCHANGED <<now, conns, emap, issued, nextNonce, cb, bc, call, selected, cmd>>

\* the credential exchange and, when it grants, storeGoogleConnection
CallbackExchange(p, sub) ==
    /\ flight[p].pc = "passed"
    /\ LET f == flight[p]
           granted == exchangeCodeForTokens(JSObj(Env), JSStr(f.code))
       IN  /\ flight' = [flight EXCEPT ![p] =
                    [pc |-> "done", state |-> f.state,
                     outcome |-> IF granted THEN "linked" ELSE "exchange_failed",
                     exchange |-> TRUE]]
           /\ conns' = IF granted
                       THEN storeGoogleConnection(conns, f.stateData.chatId, sub, Email(sub),
                                                  "refresh", f.stateData.initiatedBy)
                       ELSE conns
    /\ UNCHANGED <<now, emap, oauthState, issued, nextNonce, cb, passed, bc, call,
                   selected, cmd>>

\* index.js: the response of the invocation has been sent
CallbackResponded(p) ==
    /\ flight[p].pc = "done"
    /\ flight' = [flight EXCEPT ![p] = Landed]
    /\ UNCHANGED <<now, conns, emap, oauthState, issued, nextNonce, cb, passed, bc, call,
                   selected, cmd>>

NextCallbackRace ==
    \/ Tick(TickHandshake, MaxTicks)
    \/ generateOAuthUrl(<<1, "">>, "u1", "group")
    \/ \E s \in issued : RecordOAuthState(s)
    \/ \E p \in Callbacks, code \in AuthCodes, s \in issued : CallbackGet(p, code, s)
    \/ \E p \in Callbacks : CallbackConsume(p)
    \/ \E p \in Callbacks : CallbackExchange(p, "A")
    \/ \E p \in Callbacks : CallbackResponded(p)

SpecCallbackRace == Init /\ [][NextCallbackRace]_vars

\* C34: of the callbacks carrying one token whose marker is stored, at most
\* one passes verification and at most one reaches the credential exchange,
\* also when two of them are processed at the same time.
C34_AtMostOneCallbackPasses ==
    /\ \A s \in DOMAIN passed : passed[s] <= 1
    /\ ~(/\ flight["callback1"].pc \in {"passed", "done"}
         /\ flight["callback2"].pc \in {"passed", "done"}
         /\ flight["callback1"].state = flight["callback2"].state
         /\ \A p \in Callbacks : flight[p].pc = "passed" \/ flight[p].exchange)

(***************************************************************************)
(* '#dis' handled by another invocation while a broadcast is running       *)
(***************************************************************************)
NextDisRace ==
    \/ bc.pc = "idle" /\ Tick(TickBroadcast, MaxTicksBroadcast)
    \/ \E w \in BroadcastWorkspaces, s \in RaceSubs : StoreConnection(w, s, "u1")
    \/ \E w \in BroadcastWorkspaces, s \in RaceSubs, e \in ExpiresIn : UpdateAccessToken(w, s, e)
    \/ \E w \in BroadcastWorkspaces, s \in RaceSubs : handleDisCommand(w, Email(s))
    \/ \E w \in BroadcastWorkspaces, u \in Uids : broadcastCreateEvent(w, u)
    \/ \E w \in BroadcastWorkspaces, u \in Uids : broadcastUpdateEvent(w, u)
    \/ \E w \in BroadcastWorkspaces, u \in Uids : broadcastDeleteEvent(w, u)
    \/ \E o \in Outcomes : BroadcastTurn(o)
    \/ BroadcastReturn

SpecDisRace == Init /\ [][NextDisRace]_vars

\* C35: when a create broadcast has returned and every disconnect has
\* finished, no mapping of the workspace names an account whose connection
\* is revoked.
C35_NoMappingForRevokedAccount ==
    (bc.pc = "done" /\ bc.op = "create") =>
        \A k \in DOMAIN emap :
            k[1] = bc.chatId => RecordState(conns, k[1], emap[k].google_sub) # "revoked"

Instant(iso) == iso.wall - iso.off

\* Date.prototype.toISOString(): the UTC wall clock of the instant, suffix 'Z'
toISOString(t) == [off |-> 0, wall |-> t]

\* .replace('Z', '+08:00') and .replace('Z', '') + '+08:00': the same digits
\* with the suffix +08:00
SuffixPlus8(iso) == [off |-> 480, wall |-> iso.wall]

\* Math.round((end - start) / 60000)
calculateDuration(startIso, endIso) == Instant(endIso) - Instant(startIso)

\* date.setMinutes(date.getMinutes() + minutes), then the relabelled ISO string
addMinutes(iso, minutes) == SuffixPlus8(toISOString(Instant(iso) + minutes))

\* mergeEventPatch for a patch without allDay: section 2 (timed events) and
\* the final check of section 8; the other sections copy title, location,
\* notes and type
mergeEventPatch(existing, patch) ==
    LET end == IF patch.start # NoVal /\ patch.end # NoVal THEN patch.end
               ELSE IF patch.start # NoVal
               THEN IF existing.start # NoVal /\ existing.end # NoVal
                    THEN addMinutes(patch.start,
                                    calculateDuration(existing.start, existing.end))
                    ELSE addMinutes(patch.start, 60)
               ELSE IF patch.end # NoVal THEN patch.end
               ELSE existing.end
        start == IF patch.start # NoVal THEN patch.start ELSE existing.start
    IN  IF start = NoVal \/ end = NoVal
        THEN [end |-> end, raised |-> TRUE, start |-> start]
        ELSE [end |-> end, raised |-> FALSE, start |-> start]

\* validateAndNormalize for a timed event (lines 14-43)
validateAndNormalize(parsed, env) ==
    IF parsed.start = NoVal \/ ~parsed.title
    THEN [event |-> parsed, question |-> "missing", valid |-> FALSE]
    ELSE LET durationMinutes == IF env.DEFAULT_DURATION_MINUTES = 0 THEN 60
                                ELSE env.DEFAULT_DURATION_MINUTES
             end == IF parsed.end = NoVal
                    THEN SuffixPlus8(toISOString(Instant(parsed.start) + durationMinutes))
                    ELSE parsed.end
             event == [end |-> end, start |-> parsed.start, title |-> parsed.title]
         IN  IF Instant(parsed.start) >= Instant(end)
             THEN [event |-> event, question |-> "start-before-end", valid |-> FALSE]
             ELSE [event |-> event, question |-> "none", valid |-> TRUE]

\* timestamps the language model and the stored events carry: 10:00 and 16:00
\* of the reference day and 09:00 of the next, with +08:00 or Z
Timestamps == {[off |-> o, wall |-> w] : w \in {600, 960, 1980}, o \in {480, 0}}

mergeEventPatchCall(existing, patch) ==
    /\ call' = Called("merge", 0, "", "", "none", 0,
                      [existing |-> existing,
                       merged |-> mergeEventPatch(existing, patch),
                       patch |-> patch])
    /\ UNCHANGED <<now, conns, emap, oauthState, issued, nextNonce, cb, passed, bc,
                   selected, cmd, flight>>

validateAndNormalizeCall(parsed, d) ==
    /\ call' = Called("validate", 0, "", "", "none", 0,
                      [duration |-> d, parsed |-> parsed,
                       result |-> validateAndNormalize(parsed,
                                     [DEFAULT_DURATION_MINUTES |-> d])])
    /\ UNCHANGED <<now, conns, emap, oauthState, issued, nextNonce, cb, passed, bc,
                   selected, cmd, flight>>

NextTime ==
    \/ \E s, e \in Timestamps, ps, pe \in Timestamps \cup {NoVal} :
            /\ Instant(s) < Instant(e)
            /\ mergeEventPatchCall([end |-> e, start |-> s], [end |-> pe, start |-> ps])
    \* env.DEFAULT_DURATION_MINUTES: unset (0), half an hour, ten hours
    \/ \E s, e \in Timestamps \cup {NoVal}, named \in BOOLEAN, d \in {0, 30, 600} :
            validateAndNormalizeCall([end |-> e, start |-> s, title |-> named], d)

SpecTime == Init /\ [][NextTime]_vars

\* C37: merging a patch that changes only start into a timed event keeps the
\* duration: merged end is the instant merged start + (existing end -
\* existing start), hence after merged start.
C37_MergeKeepsDuration ==
    (/\ call.op = "merge"
     /\ call.result.patch.start # NoVal /\ call.result.patch.end = NoVal)
    => LET x == call.result.existing
           m == call.result.merged
       IN  /\ ~m.raised
           /\ m.start = call.result.patch.start
           /\ Instant(m.end) = Instant(m.start) + (Instant(x.end) - Instant(x.start))
           /\ Instant(m.end) > Instant(m.start)

\* C38: a timed event with a title and a start and without an end is
\* accepted, with end the instant DEFAULT_DURATION_MINUTES (60 when unset)
\* after start.
C38_DefaultEndIsAccepted ==
    (/\ call.op = "validate"
     /\ call.result.parsed.title
     /\ call.result.parsed.start # NoVal /\ call.result.parsed.end = NoVal)
    => LET r == call.result.result
           d == IF call.result.duration = 0 THEN 60 ELSE call.result.duration
       IN  /\ r.valid
           /\ Instant(r.event.end) = Instant(call.result.parsed.start) + d
====
